---- MODULE Spec2Model ----
(***************************************************************************)
(* Model of the compilation Target object (src/target/target.cc and        *)
(* include/tvm/target/target.h): the thread-local context stack, the       *)
(* quoting/escaping engine, the raw-string and config assemblers, the      *)
(* stringifier and the host copy operations; of SeqStmt::Flatten           *)
(* (include/tvm/tir/stmt.h); and of IntImm (src/ir/expr.cc).               *)
(***************************************************************************)
EXTENDS Integers, Sequences, FiniteSets, TLC

VARIABLES
  context_stack,   \* per thread-local entry: std::stack<Target>, top = last element
  last_op,         \* the call that has just returned (or failed) on the context stack
  enter_hist,      \* history: per thread, Current() as observed just before each live Enter
  scope_count,     \* history: per thread, the Enters and the successful Exits so far
  str_in,          \* the std::string handed to the quoting/escaping engine
  str_mid,         \* Uninterpret(str_in), once computed
  str_out,         \* Interpret(str_mid), once computed
  str_quoted,      \* IsQuoted(str_in), once computed
  str_split,       \* SplitString(str_in, separator), once computed, with the separator
  str_pc,          \* position of the string pipeline
  b_input,         \* the raw string or config map handed to a Target constructor
  b_api,           \* the device API of the process (for from_device)
  b_inner,         \* what TargetInternal::FromString resp. FromConfig returned or threw
  b_res,           \* what the constructor around it returned or threw
  b_mid,           \* str() resp. Export() of the constructed Target
  b_again,         \* what constructing from b_mid returned or threw
  b_pc,            \* position of the construction pipeline
  heap,            \* the TargetNode objects allocated so far; a reference is an index
  h_last,          \* the host copy operation that has just returned
  flat_args,       \* the two arguments handed to SeqStmt::Flatten
  flat_one,        \* Flatten(a, b)
  flat_parts,      \* Flatten(a) and Flatten(b)
  flat_two,        \* Flatten(Flatten(a), Flatten(b))
  flat_pc,         \* position of the flattening pipeline
  fn_in,           \* the arguments of a parser or stringifier function called on its own
  fn_out,          \* what the call returned or threw
  fn_pc            \* whether the call has been made

ctx_vars == <<context_stack, last_op, enter_hist, scope_count>>

str_vars == <<str_in, str_mid, str_out, str_quoted, str_split, str_pc>>

build_vars == <<b_input, b_api, b_inner, b_res, b_mid, b_again, b_pc>>

heap_vars == <<heap, h_last>>

flat_vars == <<flat_args, flat_one, flat_parts, flat_two, flat_pc>>

fn_vars == <<fn_in, fn_out, fn_pc>>

vars == <<context_stack, last_op, enter_hist, scope_count, str_in, str_mid, str_out, str_quoted,
          str_split, str_pc,
          b_input, b_api, b_inner, b_res, b_mid, b_again, b_pc, heap, h_last,
          flat_args, flat_one, flat_parts, flat_two, flat_pc, fn_in, fn_out, fn_pc>>

(***************************************************************************)
(* Context stack                                                           *)
(***************************************************************************)

\* Cap on the depth of a context stack explored by the model.
MaxDepth == 3

\* Cap on the number of Enters of one thread explored by the model.
MaxEnters == 3

\* The threads that call Enter/Exit/Current.
Threads == {"th1", "th2"}

\* Target(): the null (undefined) object reference.
NullTarget == 0

\* The Target objects the threads hold references to.  Objects 1 and 2 are
\* distinct objects with the same structure; object 3 differs structurally.
TargetObjs == {1, 2, 3}

\* The structure (kind name) of each object in the pool.
ObjStructure(o) == IF o = 3 THEN "cuda" ELSE "llvm"

\* ObjectRef::same_as : pointer identity.
SameAsStructural(a, b) == ObjStructure(a) = ObjStructure(b)
same_as(a, b) == a = b

\* dmlc::ThreadLocalStore<TVMTargetThreadLocalEntry>::Get(): the entry of the
\* calling thread.
ThreadLocalGetShared(th) == "th1"
ThreadLocalGet(th) == th

Top(stk) == stk[Len(stk)]
PopAll(stk) == <<>>
Pop(stk) == SubSeq(stk, 1, Len(stk) - 1)

\* The stack after entry->context_stack.push(*this).
PushBottom(stk, t) == <<t>> \o stk
Push(stk, t) == Append(stk, t)

\* The two ICHECKs of Target::ExitWithScope.
ExitChecks(stk, t) == stk # <<>> /\ same_as(Top(stk), t)

\* Target::Current on the calling thread's stack: <<status, returned target>>.
CurrentResultStrict(stk, allow_not_defined) ==
  IF Len(stk) > 0 /\ allow_not_defined THEN <<"ok", Top(stk)>>
  ELSE IF Len(stk) > 0 THEN <<"fatal", NullTarget>>
  ELSE IF allow_not_defined THEN <<"ok", NullTarget>> ELSE <<"fatal", NullTarget>>
CurrentResult(stk, allow_not_defined) ==
  IF Len(stk) > 0 THEN <<"ok", Top(stk)>>
  ELSE IF allow_not_defined THEN <<"ok", NullTarget>>
  ELSE <<"fatal", NullTarget>>

CtxInit ==
  /\ context_stack = [e \in Threads |-> <<>>]
  /\ last_op = [op |-> "none", thread |-> "th1", arg |-> NullTarget,
                allow |-> TRUE, status |-> "ok", ret |-> NullTarget, before |-> <<>>]
  /\ enter_hist = [th \in Threads |-> <<>>]
  /\ scope_count = [th \in Threads |-> [enters |-> 0, exits |-> 0]]

\* Target::EnterWithScope
EnterWithScope(th, t) ==
  LET entry == ThreadLocalGet(th) IN
  /\ Len(context_stack[entry]) < MaxDepth
  /\ scope_count[th].enters < MaxEnters
  /\ context_stack' = [context_stack EXCEPT ![entry] = Push(@, t)]
  /\ enter_hist' = [enter_hist EXCEPT
                      ![th] = Append(@, CurrentResult(context_stack[entry], TRUE)[2])]
  /\ scope_count' = [scope_count EXCEPT ![th].enters = @ + 1]
  /\ last_op' = [op |-> "Enter", thread |-> th, arg |-> t, allow |-> TRUE,
                 status |-> "ok", ret |-> NullTarget, before |-> context_stack[entry]]
  /\ UNCHANGED <<str_vars, build_vars, heap_vars, flat_vars, fn_vars>>

ExitWithScopePopFirst(th, t) ==
  LET entry == ThreadLocalGet(th)
      ok == ExitChecks(context_stack[entry], t)
      popped == context_stack[entry] # <<>> IN
  /\ context_stack' = [context_stack EXCEPT ![entry] = IF popped THEN Pop(@) ELSE @]
  /\ enter_hist' = [enter_hist EXCEPT ![th] = IF popped THEN Pop(@) ELSE @]
  /\ scope_count' = [scope_count EXCEPT ![th].exits = IF ok THEN @ + 1 ELSE @]
  /\ last_op' = [op |-> "Exit", thread |-> th, arg |-> t, allow |-> TRUE,
                 status |-> IF ok THEN "ok" ELSE "fatal", ret |-> NullTarget,
                 before |-> context_stack[entry]]
  /\ UNCHANGED <<str_vars, build_vars, heap_vars, flat_vars, fn_vars>>

\* Target::ExitWithScope
ExitWithScope(th, t) ==
  LET entry == ThreadLocalGet(th) IN
  /\ IF ExitChecks(context_stack[entry], t)
     THEN /\ context_stack' = [context_stack EXCEPT ![entry] = Pop(@)]
          /\ enter_hist' = [enter_hist EXCEPT ![th] = Pop(@)]
          /\ scope_count' = [scope_count EXCEPT ![th].exits = @ + 1]
          /\ last_op' = [op |-> "Exit", thread |-> th, arg |-> t, allow |-> TRUE,
                         status |-> "ok", ret |-> NullTarget, before |-> context_stack[entry]]
     ELSE /\ UNCHANGED <<context_stack, enter_hist, scope_count>>
          /\ last_op' = [op |-> "Exit", thread |-> th, arg |-> t, allow |-> TRUE,
                         status |-> "fatal", ret |-> NullTarget, before |-> context_stack[entry]]
  /\ UNCHANGED <<str_vars, build_vars, heap_vars, flat_vars, fn_vars>>

\* Target::Current
Current(th, allow_not_defined) ==
  LET entry == ThreadLocalGet(th)
      r == CurrentResult(context_stack[entry], allow_not_defined) IN
  /\ UNCHANGED <<context_stack, enter_hist, scope_count>>
  /\ last_op' = [op |-> "Current", thread |-> th, arg |-> NullTarget,
                 allow |-> allow_not_defined, status |-> r[1], ret |-> r[2],
                 before |-> context_stack[entry]]
  /\ UNCHANGED <<str_vars, build_vars, heap_vars, flat_vars, fn_vars>>

CtxNext ==
  \E th \in Threads :
    \/ \E t \in TargetObjs : EnterWithScope(th, t)
    \/ \E t \in TargetObjs : ExitWithScope(th, t)
    \/ \E a \in BOOLEAN : Current(th, a)

(***************************************************************************)
(* Quoting/escaping engine                                                 *)
(***************************************************************************)

\* Longest input string handed to the engine on its own.
MaxStrLen == 6

\* TargetInternal::quote and TargetInternal::escape
quote == "'"
escape == "\\"

\* Characters of the input strings: the two reserved characters, the two
\* separators and an ordinary character.
StrAlphabet == {quote, escape, " ", ",", "a"}

\* The strings of n characters.
StringsOfLen(n) == [1..n -> StrAlphabet]

\* std::string::find_first_of(c) != npos
Contains(str, c) == \E i \in 1..Len(str) : str[i] = c

\* The loop of IsQuoted over the interior characters i .. e-1 (1-based).
RECURSIVE IsQuotedLoop(_, _, _, _)
IsQuotedLoop(str, i, e, escaping) ==
  IF i >= e THEN ~escaping
  ELSE IF escaping THEN IsQuotedLoop(str, i + 1, e, FALSE)
  ELSE IF str[i] = escape THEN IsQuotedLoop(str, i + 1, e, TRUE)
  ELSE IF str[i] = quote THEN FALSE
  ELSE IsQuotedLoop(str, i + 1, e, FALSE)

\* TargetInternal::IsQuoted
IsQuotedEndsOnly(str) ==
  Len(str) >= 2 /\ str[1] = quote /\ str[Len(str)] = quote
IsQuoted(str) ==
  IF Len(str) < 2 \/ str[1] # quote \/ str[Len(str)] # quote THEN FALSE
  ELSE IsQuotedLoop(str, 2, Len(str), FALSE)

\* TargetInternal::Quote
Quote(str) == <<quote>> \o str \o <<quote>>

\* The loop of Interpret over the characters i .. e (1-based, inclusive).
RECURSIVE InterpretLoop(_, _, _, _, _, _)
InterpretLoop(str, i, e, inside_quote, escaping, result) ==
  IF i > e THEN result
  ELSE LET c == str[i] IN
    IF escaping THEN InterpretLoop(str, i + 1, e, inside_quote, FALSE, Append(result, c))
    ELSE IF c = escape THEN
      IF ~inside_quote
      THEN InterpretLoop(str, i + 1, e, inside_quote, TRUE, result)
      ELSE InterpretLoop(str, i + 1, e, inside_quote, TRUE, Append(result, c))
    ELSE IF c = quote THEN
      InterpretLoop(str, i + 1, e, ~inside_quote, FALSE, Append(result, c))
    ELSE InterpretLoop(str, i + 1, e, inside_quote, FALSE, Append(result, c))

\* TargetInternal::Interpret
InterpretKeepQuotes(str) == InterpretLoop(str, 1, Len(str), FALSE, FALSE, <<>>)
Interpret(str) ==
  IF str = <<>> THEN <<>>
  ELSE IF IsQuoted(str) THEN InterpretLoop(str, 2, Len(str) - 1, FALSE, FALSE, <<>>)
  ELSE InterpretLoop(str, 1, Len(str), FALSE, FALSE, <<>>)

RECURSIVE UninterpretQuoteOnly(_)
UninterpretQuoteOnly(str) ==
  IF str = <<>> THEN <<>>
  ELSE (IF str[1] = quote THEN <<escape, str[1]>> ELSE <<str[1]>>)
       \o UninterpretQuoteOnly(Tail(str))

\* TargetInternal::Uninterpret
RECURSIVE UninterpretRec(_)
UninterpretRec(str) ==
  IF str = <<>> THEN <<>>
  ELSE (IF str[1] = escape \/ str[1] = quote THEN <<escape, str[1]>> ELSE <<str[1]>>)
       \o UninterpretRec(Tail(str))

Uninterpret(str) == UninterpretRec(str)

\* TargetInternal::JoinString (the separator is never the quote or the escape)
RECURSIVE JoinString(_, _)
JoinString(array, separator) ==
  IF array = <<>> THEN <<>>
  ELSE IF Len(array) = 1 THEN array[1]
  ELSE array[1] \o <<separator>> \o JoinString(Tail(array), separator)

\* finish_word of SplitString: push the current word unless it is empty.
FinishWordKeepEmpty(output, word) == Append(output, word)
FinishWord(output, word) == IF word # <<>> THEN Append(output, word) ELSE output

\* One iteration of the while loop of SplitString, at the character c of
\* position pos; `last` is pos + 1 = end.  st.taken says that c is pos[1] of
\* the iteration before, which wrote it after the escape and stepped over it
\* (pos += 2).
SplitStep(st, c, separator, last) ==
  IF st.taken
  THEN [st EXCEPT !.word = Append(@, c), !.taken = FALSE]
  ELSE IF c = separator /\ ~st.pos_quoted
  THEN [st EXCEPT !.output = FinishWord(@, st.word), !.word = <<>>]
  ELSE IF c = escape /\ ~last
  THEN [st EXCEPT !.word = Append(@, escape), !.taken = TRUE]
  ELSE IF c = quote
  THEN [st EXCEPT !.word = Append(@, quote), !.pos_quoted = ~@]
  ELSE [st EXCEPT !.word = Append(@, c)]

\* The while loop of SplitString over the positions lo .. hi (1-based), left
\* to right.  The range is halved and the loop state is read before the next
\* half is entered, so that the evaluation stays shallow.
RECURSIVE SplitLoop(_, _, _, _, _)
SplitLoop(str, separator, lo, hi, st) ==
  IF st.taken \notin BOOLEAN \/ lo > hi THEN st
  ELSE IF lo = hi THEN SplitStep(st, str[lo], separator, lo = Len(str))
  ELSE SplitLoop(str, separator, ((lo + hi) \div 2) + 1, hi,
                 SplitLoop(str, separator, lo, (lo + hi) \div 2, st))

\* The end of SplitString: ok = FALSE is the ICHECK failure on mismatched
\* quotes, otherwise val is the list of words.
SplitFinish(st) ==
  IF st.pos_quoted THEN [ok |-> FALSE, val |-> <<>>]
  ELSE [ok |-> TRUE, val |-> FinishWord(st.output, st.word)]

\* TargetInternal::SplitString
SplitString(str, separator) ==
  SplitFinish(SplitLoop(str, separator, 1, Len(str),
                        [word |-> <<>>, output |-> <<>>, pos_quoted |-> FALSE,
                         taken |-> FALSE]))

(***************************************************************************)
(* Values, errors and the kind registry                                    *)
(***************************************************************************)

\* ffi::Any: a tagged value.  t is "null", "int", "bool", "str", "arr", "map"
\* or "target"; strings are sequences of characters.
AnyNull == [t |-> "null", v |-> 0]
AnyInt(i) == [t |-> "int", v |-> i]
AnyBool(b) == [t |-> "bool", v |-> b]
AnyStr(str) == [t |-> "str", v |-> str]
AnyArr(arr) == [t |-> "arr", v |-> arr]
AnyMap(m) == [t |-> "map", v |-> m]
AnyTarget(n) == [t |-> "target", v |-> n]

\* An empty Map<String, Any>.
EmptyMap == [k \in {} |-> AnyNull]

\* Map::Set / unordered_map operator[]= and erase.
MapSet(m, key, val) == [k \in DOMAIN m \cup {key} |-> IF k = key THEN val ELSE m[k]]
MapErase(m, key) == [k \in DOMAIN m \ {key} |-> m[k]]

\* A returned value, or a thrown ffi::Error(kind, message).  A message is a
\* sequence of fragments: fixed text, an inserted string, or a printed value.
Ok(val) == [ok |-> TRUE, val |-> val]
Err(kind, msg) == [ok |-> FALSE, kind |-> kind, msg |-> msg]
Lit(text) == [f |-> "lit", s |-> text]
Txt(str) == [f |-> "txt", s |-> str]
Obj(any) == [f |-> "obj", s |-> any]

\* throw Error(e.kind(), e.message() + suffix, e.traceback())
Rethrow(e, suffix) == Err(e.kind, e.msg \o suffix)
\* throw Error(e.kind(), prefix + e.message(), e.traceback())
RethrowPrefixed(e, prefix) == Err(e.kind, prefix \o e.msg)

\* Characters in ascending byte order (the order of std::string::operator<).
AsciiOrder ==
  <<" ", "'", "+", ",", "-", "0", "1", "2", "3", "4", "5", "6", "7", "8", "9", "=",
    "A", "E", "F", "L", "R", "S", "T", "U", "\\", "_",
    "a", "b", "c", "d", "e", "f", "g", "h", "i", "j", "k", "l", "m", "n", "o", "p",
    "q", "r", "s", "t", "u", "v", "w", "x", "y", "z", "{">>

CharCode(c) == CHOOSE i \in 1..Len(AsciiOrder) : AsciiOrder[i] = c

\* std::string operator< (lexicographic on bytes)
RECURSIVE StrLess(_, _)
StrLess(x, y) ==
  IF y = <<>> THEN FALSE
  ELSE IF x = <<>> THEN TRUE
  ELSE IF x[1] = y[1] THEN StrLess(Tail(x), Tail(y))
  ELSE CharCode(x[1]) < CharCode(y[1])

\* std::sort over a set of distinct strings: the i-th is the one with i - 1
\* smaller strings.
SortStrings(set) ==
  [i \in 1..Cardinality(set) |->
     CHOOSE x \in set : Cardinality({y \in set : StrLess(y, x)}) = i - 1]

Digits == <<"0", "1", "2", "3", "4", "5", "6", "7", "8", "9">>
IsDigit(c) == \E d \in 1..10 : Digits[d] = c
DigitVal(c) == (CHOOSE d \in 1..10 : Digits[d] = c) - 1

\* std::to_string of a non-negative integer, then of any integer.
RECURSIVE NatToString(_)
NatToString(n) ==
  IF n < 10 THEN <<Digits[n + 1]>> ELSE Append(NatToString(n \div 10), Digits[(n % 10) + 1])
IntToString(i) == IF i < 0 THEN <<"-">> \o NatToString(0 - i) ELSE NatToString(i)

\* std::tolower on the characters of the alphabet.
ToLowerChar(c) ==
  CASE c = "A" -> "a" [] c = "E" -> "e" [] c = "F" -> "f" [] c = "L" -> "l"
    [] c = "R" -> "r" [] c = "S" -> "s" [] c = "T" -> "t" [] c = "U" -> "u"
    [] OTHER -> c
ToLower(str) == [i \in 1..Len(str) |-> ToLowerChar(str[i])]

\* The digits read by operator>> from position i on: <<value, digits read>>.
RECURSIVE ReadDigits(_, _, _, _)
ReadDigits(str, i, acc, n) ==
  IF i <= Len(str) /\ IsDigit(str[i])
  THEN ReadDigits(str, i + 1, acc * 10 + DigitVal(str[i]), n + 1)
  ELSE <<acc, n>>

\* Leading whitespace skipped by operator>>.
RECURSIVE SkipSpaces(_, _)
SkipSpaces(str, i) == IF i <= Len(str) /\ str[i] = " " THEN SkipSpaces(str, i + 1) ELSE i

\* std::istringstream is(str); is >> v  for int64_t v: leading spaces and a
\* sign are accepted, reading stops at the first non-digit, and the read fails
\* when no digit was read.  <<ok, v>>.
StreamReadInt(str) ==
  LET Number(negative, r) ==
        IF r[2] = 0 THEN <<FALSE, 0>>
        ELSE IF negative THEN <<TRUE, 0 - r[1]>> ELSE <<TRUE, r[1]>>
      Signed(i) ==
        IF i <= Len(str) /\ (str[i] = "-" \/ str[i] = "+")
        THEN Number(str[i] = "-", ReadDigits(str, i + 1, 0, 0))
        ELSE Number(FALSE, ReadDigits(str, i, 0, 0))
  IN Signed(SkipSpaces(str, 1))

\* Names with a fixed role in the assembler.
kKind == <<"k", "i", "n", "d">>
kTag == <<"t", "a", "g">>
kKeys == <<"k", "e", "y", "s">>
kDeviceName == <<"d", "e", "v", "i", "c", "e">>
kHost == <<"h", "o", "s", "t">>
kFeatures == <<"f", "e", "a", "t", "u", "r", "e", "s">>
kFromDevice == <<"f", "r", "o", "m", "_", "d", "e", "v", "i", "c", "e">>
kTargetDeviceType ==
  <<"t", "a", "r", "g", "e", "t", "_", "d", "e", "v", "i", "c", "e", "_", "t", "y", "p", "e">>

\* TargetKindNode::ValueTypeInfo
InfoInt == [type |-> "int"]
InfoBool == [type |-> "bool"]
InfoStr == [type |-> "str"]
InfoTarget == [type |-> "target"]
InfoArr(elem) == [type |-> "arr", key |-> elem]
InfoMap(key, val) == [type |-> "map", key |-> key, val |-> val]

\* Any::GetTypeKey
GetTypeKey(any) == Lit(any.t)

\* Attribute options every kind registers, then the registry's two sample
\* kinds.  Both have no attrs preprocessor and no target parser.
CommonSchema ==
  MapSet(MapSet(MapSet(MapSet(MapSet(EmptyMap,
    kKeys, InfoArr(InfoStr)), kTag, InfoStr), kDeviceName, InfoStr),
    kHost, InfoTarget), kFromDevice, InfoInt)

LlvmName == <<"l", "l", "v", "m">>
CudaName == <<"c", "u", "d", "a">>

LlvmKind ==
  [name |-> LlvmName,
   key2vtype_ |-> MapSet(MapSet(MapSet(MapSet(MapSet(CommonSchema,
                    <<"a">>, InfoInt), <<"b">>, InfoBool), <<"s">>, InfoStr),
                    <<"l">>, InfoArr(InfoStr)), <<"o">>, InfoInt),
   key2default_ |-> MapSet(EmptyMap, <<"o">>, AnyInt(2)),
   default_keys |-> << <<"c", "p", "u">> >>,
   default_device_type |-> 1,
   preprocessor |-> "null",
   target_parser |-> "null"]

CudaKind ==
  [name |-> CudaName,
   key2vtype_ |-> MapSet(MapSet(CommonSchema, <<"a">>, InfoInt), <<"s">>, InfoStr),
   key2default_ |-> MapSet(EmptyMap, <<"a">>, AnyInt(7)),
   default_keys |-> << CudaName, <<"g", "p", "u">> >>,
   default_device_type |-> 2,
   preprocessor |-> "null",
   target_parser |-> "null"]

\* TargetKind::Get(name): the registered kind, if any.
TargetKindGet(name) ==
  IF name = LlvmName THEN Ok(LlvmKind)
  ELSE IF name = CudaName THEN Ok(CudaKind)
  ELSE Err("none", <<>>)

\* TargetTag::Get(name): no tag is registered.
TargetTagGet(name) == Err("none", <<>>)

\* GetTargetKind
GetTargetKind(name) ==
  LET found == TargetKindGet(name) IN
  IF ~found.ok
  THEN Err("TypeError", <<Lit("Target kind \""), Txt(name), Lit("\" is not defined")>>)
  ELSE found

\* RemovePrefixDashes
RECURSIVE CountDashes(_, _)
CountDashes(str, n) ==
  IF n < Len(str) /\ str[n + 1] = "-" THEN CountDashes(str, n + 1) ELSE n

RemovePrefixDashesOne(str) ==
  IF str = <<>> \/ str[1] # "-"
  THEN Err("ValueError",
           <<Lit("Attribute keys should start with '-', not an attribute key: "), Txt(str)>>)
  ELSE IF Len(str) = 1
  THEN Err("ValueError", <<Lit("Not an attribute key: "), Txt(str)>>)
  ELSE Ok(Tail(str))
RemovePrefixDashes(str) ==
  LET n_dashes == CountDashes(str, 0) IN
  IF n_dashes = 0
  THEN Err("ValueError",
           <<Lit("Attribute keys should start with '-', not an attribute key: "), Txt(str)>>)
  ELSE IF n_dashes >= Len(str)
  THEN Err("ValueError", <<Lit("Not an attribute key: "), Txt(str)>>)
  ELSE Ok(SubSeq(str, n_dashes + 1, Len(str)))

\* std::string::find_first_of(c): the 1-based position, 0 for npos.
FindFirstOf(str, c) ==
  IF Contains(str, c)
  THEN CHOOSE i \in 1..Len(str) : str[i] = c /\ \A j \in 1..(i - 1) : str[j] # c
  ELSE 0

\* ParseKVPair: the key, the value and the number of tokens consumed.
ParseKVPairNeverTwo(str, s_next) == Ok([key |-> str, value |-> <<"1">>, n |-> 1])
ParseKVPair(str, s_next) ==
  LET pos == FindFirstOf(str, "=") IN
  IF pos # 0
  THEN LET result_k == SubSeq(str, 1, pos - 1)
           result_v == SubSeq(str, pos + 1, Len(str))
       IN IF result_k = <<>> \/ result_v = <<>>
          THEN Err("ValueError",
                   <<Lit("Empty attribute key or value in \""), Txt(str), Lit("\"")>>)
          ELSE Ok([key |-> result_k, value |-> result_v, n |-> 1])
  ELSE IF s_next # <<>> /\ s_next[1] # "-"
  THEN Ok([key |-> str, value |-> s_next, n |-> 2])
  ELSE Ok([key |-> str, value |-> <<"1">>, n |-> 1])

\* The candidates listed by FindTypeInfo, one fragment per schema key.
CandidateList(kind) ==
  LET Fragments(keys) == [i \in 1..Len(keys) |-> Txt(keys[i])]
  IN Fragments(SortStrings(DOMAIN kind.key2vtype_))

\* TargetInternal::FindTypeInfo
FindTypeInfoNoCheck(kind, key) ==
  IF key \in DOMAIN kind.key2vtype_ THEN Ok(kind.key2vtype_[key]) ELSE Ok(InfoStr)
FindTypeInfo(kind, key) ==
  IF key \notin DOMAIN kind.key2vtype_
  THEN Err("TypeError",
           <<Lit(": Cannot recognize '"), Txt(key), Lit("'. Candidates are: ")>>
             \o CandidateList(kind))
  ELSE Ok(kind.key2vtype_[key])

(***************************************************************************)
(* Parsing and the config assembler                                        *)
(***************************************************************************)

\* DeduplicateKeys
DeduplicateKeysKeepLast(keys) ==
  LET keep == {i \in 1..Len(keys) : \A j \in (i + 1)..Len(keys) : keys[j] # keys[i]}
      F[i \in 0..Len(keys)] ==
        IF i = 0 THEN <<>> ELSE IF i \in keep THEN Append(F[i - 1], keys[i]) ELSE F[i - 1]
  IN F[Len(keys)]
DeduplicateKeys(keys) ==
  LET found(i) == \E j \in 1..(i - 1) : keys[i] = keys[j]
      F[i \in 0..Len(keys)] ==
        IF i = 0 THEN <<>> ELSE IF ~found(i) THEN Append(F[i - 1], keys[i]) ELSE F[i - 1]
  IN F[Len(keys)]

\* Any::try_cast<T> / Any::as<T>: the value carries exactly the type asked for.
TryCast(obj, type) == obj.t = type

\* ObjTypeCheck<T>
ObjTypeCheck(obj, type, expected_type) ==
  IF ~TryCast(obj, type)
  THEN Err("TypeError", <<Lit("Expects type \""), Lit(expected_type), Lit("\", but gets \""),
                          GetTypeKey(obj), Lit("\" for object: "), Obj(obj)>>)
  ELSE Ok(obj)

\* A generic map value is a sequence of [k, v] entries with distinct keys.
\* GetRef<Map<String, Any>>(ptr), for a map whose keys are all strings.
MapToConfig(pairs) ==
  [key \in {pairs[i].k.v : i \in 1..Len(pairs)} |->
     (pairs[CHOOSE i \in 1..Len(pairs) : pairs[i].k.v = key]).v]
\* A Map<String, Any> as a generic map value.
ConfigToPairs(config) ==
  LET Entries(keys) == [i \in 1..Len(keys) |-> [k |-> AnyStr(keys[i]), v |-> config[keys[i]]]]
  IN Entries(SortStrings(DOMAIN config))
\* result[key] = val on a generic map.
PairsSet(pairs, key, val) ==
  IF \E i \in 1..Len(pairs) : pairs[i].k = key
  THEN [i \in 1..Len(pairs) |-> IF pairs[i].k = key THEN [k |-> key, v |-> val] ELSE pairs[i]]
  ELSE Append(pairs, [k |-> key, v |-> val])

\* make_object<TargetNode>() with its fields assigned.
MakeTargetNode(kind, host, tag, keys, attrs, features) ==
  [kind |-> kind, host |-> host, tag |-> tag, keys |-> keys, attrs |-> attrs,
   features |-> features, str_repr_ |-> <<>>]

\* The hooks a kind may carry are opaque functions of the registry.
ApplyTargetParser(kind, config) == config
ApplyPreprocessor(kind, attrs) == attrs

\* TargetNode::GetTargetDeviceType, on a node whose attrs are `attrs`.
GetTargetDeviceType(kind, attrs) ==
  IF kTargetDeviceType \in DOMAIN attrs THEN attrs[kTargetDeviceType].v
  ELSE kind.default_device_type

\* TargetInternal::QueryDevice, against the device API `api`: when the API is
\* there and the device exists, one entry per schema key of the kind, holding
\* what GetTargetProperty left in `ret` (nothing, for a property the device
\* does not report).
QueryDeviceReportedOnly(api, kind) ==
  IF ~api.available THEN Ok(EmptyMap)
  ELSE IF ~api.exists THEN Err("InternalError", <<Lit("device_id doesn't exist")>>)
  ELSE Ok([key \in DOMAIN kind.key2vtype_ \cap DOMAIN api.props |-> api.props[key]])
QueryDevice(api, kind) ==
  IF ~api.available THEN Ok(EmptyMap)
  ELSE IF ~api.exists
  THEN Err("InternalError",
           <<Lit("Requested reading the parameters for "), Txt(kind.name),
             Lit(" from device_id, but device_id doesn't exist.  Using default target parameters.")>>)
  ELSE Ok([key \in DOMAIN kind.key2vtype_ |->
             IF key \in DOMAIN api.props THEN api.props[key] ELSE AnyNull])

\* for (kv : from) if (!attrs.count(kv.first)) attrs[kv.first] = kv.second
MergeMissingOverwrite(attrs, from) ==
  [k \in DOMAIN attrs \cup DOMAIN from |-> IF k \in DOMAIN from THEN from[k] ELSE attrs[k]]
MergeMissing(attrs, from) ==
  [k \in DOMAIN attrs \cup DOMAIN from |-> IF k \in DOMAIN attrs THEN attrs[k] ELSE from[k]]

IndexFragmentFromOne(n) == Txt(<<"[">> \o NatToString(n + 1) \o <<"]">>)

\* "[" + std::to_string(result.size()) + "]"
IndexFragment(n) == Txt(<<"[">> \o NatToString(n) \o <<"]">>)

\* ", during parsing target[\"" + key + "\"]"
DuringParsingKey(key) == <<Lit(", during parsing target[\""), Txt(key), Lit("\"]")>>

RECURSIVE ParseTypeStr(_, _, _)
RECURSIVE ParseTypeAny(_, _, _)
RECURSIVE ParseArrayStrLoop(_, _, _, _, _)
RECURSIVE ParseArrayAnyLoop(_, _, _, _, _)
RECURSIVE ParseMapAnyLoop(_, _, _, _, _)
RECURSIVE FromString(_, _)
RECURSIVE FromRawLoop(_, _, _, _, _, _)
RECURSIVE FromConfig(_, _)
RECURSIVE ConstructorDispatcher(_, _)

\* Target(ObjectPtr) around a parsed node, or the error of the parse.
AsTarget(t) == IF ~t.ok THEN t ELSE Ok(AnyTarget(t.val))

\* One element of the array loop of ParseType(std::string).
ParseArrayStrElement(api, substrs, i, info, result, parsed) ==
  IF ~parsed.ok THEN Rethrow(parsed, <<IndexFragment(Len(result))>>)
  ELSE ParseArrayStrLoop(api, substrs, i + 1, info, Append(result, parsed.val))

\* The array loop of ParseType(std::string): elements i.. of the split words.
ParseArrayStrLoop(api, substrs, i, info, result) ==
  IF i > Len(substrs) THEN Ok(AnyArr(result))
  ELSE ParseArrayStrElement(api, substrs, i, info, result,
                            ParseTypeStr(api, substrs[i], info.key))

\* ParseType(std::string), array branch, on the words SplitString returned.
ParseArrayStr(api, substrs, info) ==
  IF ~substrs.ok
  THEN Err("InternalError", <<Lit("Mismatched quotes '' in string")>>)
  ELSE ParseArrayStrLoop(api, substrs.val, 1, info, <<>>)

\* ParseType(std::string), integer branch: the stream read, then "true" and
\* "false" in any case.
ParseInteger(interp_str, r, lower) ==
  IF r[1] THEN Ok(r[2])
  ELSE IF lower = <<"t", "r", "u", "e">> THEN Ok(1)
  ELSE IF lower = <<"f", "a", "l", "s", "e">> THEN Ok(0)
  ELSE Err("ValueError", <<Lit("Cannot parse integer from string: "), Txt(interp_str)>>)

\* ParseType(std::string), integer branch: the value as Integer or as Bool.
TypedInteger(v, info) ==
  IF ~v.ok THEN v
  ELSE IF info.type = "int" THEN Ok(AnyInt(v.val)) ELSE Ok(AnyBool(v.val # 0))

\* ParseType(std::string), string branch: the spaces at both ends removed.
TrimSpaces(interp_str, nonspace) ==
  IF nonspace = {} THEN <<>>
  ELSE SubSeq(interp_str, CHOOSE i \in nonspace : \A j \in nonspace : i <= j,
                          CHOOSE i \in nonspace : \A j \in nonspace : j <= i)

\* ParseType(std::string) on the interpreted string.
ParseInterpreted(api, interp_str, info) ==
  IF info.type = "int" \/ info.type = "bool" THEN
    TypedInteger(ParseInteger(interp_str, StreamReadInt(interp_str), ToLower(interp_str)),
                 info)
  ELSE IF info.type = "str" THEN
    Ok(AnyStr(TrimSpaces(interp_str, {i \in 1..Len(interp_str) : interp_str[i] # " "})))
  ELSE IF info.type = "target" THEN
    AsTarget(FromString(api, interp_str))
  ELSE IF info.type = "arr" THEN
    ParseArrayStr(api, SplitString(interp_str, ","), info)
  ELSE Err("TypeError", <<Lit("Unsupported type \""), Lit(info.type),
                          Lit("\" for parsing from string: "), Txt(interp_str)>>)

\* TargetInternal::ParseType(const std::string&, const ValueTypeInfo&)
ParseTypeStr(api, str, info) == ParseInterpreted(api, Interpret(str), info)

\* One element of the array loop of ParseType(const Any&).
ParseArrayAnyElement(api, array, i, info, result, parsed) ==
  IF ~parsed.ok THEN RethrowPrefixed(parsed, <<IndexFragment(Len(result))>>)
  ELSE ParseArrayAnyLoop(api, array, i + 1, info, Append(result, parsed.val))

\* The array loop of ParseType(const Any&).
ParseArrayAnyLoop(api, array, i, info, result) ==
  IF i > Len(array) THEN Ok(AnyArr(result))
  ELSE ParseArrayAnyElement(api, array, i, info, result,
                            ParseTypeAny(api, array[i], info.key))

\* One entry of the map loop of ParseType(const Any&): the value, then the key.
ParseMapAnyValue(api, map, i, info, result, key, val) ==
  IF ~val.ok
  THEN Rethrow(val, <<Lit(", during parseing value of map[\""), Obj(key.val), Lit("\"]")>>)
  ELSE ParseMapAnyLoop(api, map, i + 1, info, PairsSet(result, key.val, val.val))

ParseMapAnyKey(api, map, i, info, result, key) ==
  IF ~key.ok THEN Rethrow(key, <<Lit(", during parse key of map")>>)
  ELSE ParseMapAnyValue(api, map, i, info, result, key,
                        ParseTypeAny(api, map[i].v, info.val))

\* The map loop of ParseType(const Any&).
ParseMapAnyLoop(api, map, i, info, result) ==
  IF i > Len(map) THEN Ok(AnyMap(result))
  ELSE ParseMapAnyKey(api, map, i, info, result, ParseTypeAny(api, map[i].k, info.key))

\* The first key of a generic map that is not a string.
FirstNonStringKey(pairs) ==
  CHOOSE i \in 1..Len(pairs) :
    pairs[i].k.t # "str" /\ \A j \in 1..(i - 1) : pairs[j].k.t = "str"

\* TargetInternal::ParseType(const Any&, const ValueTypeInfo&)
ParseTypeAny(api, obj, info) ==
  IF info.type = "int" THEN ObjTypeCheck(obj, "int", "int64_t")
  ELSE IF info.type = "bool" THEN ObjTypeCheck(obj, "bool", "bool")
  ELSE IF info.type = "str" THEN ObjTypeCheck(obj, "str", "String")
  ELSE IF info.type = "target" THEN
    IF TryCast(obj, "target") THEN Ok(obj)
    ELSE IF TryCast(obj, "str") THEN AsTarget(FromString(api, obj.v))
    ELSE IF TryCast(obj, "map") THEN
      IF \E i \in 1..Len(obj.v) : obj.v[i].k.t # "str"
      THEN Err("TypeError",
               <<Lit("Target object requires key of dict to be str, but get: "),
                 GetTypeKey(obj.v[FirstNonStringKey(obj.v)].k)>>)
      ELSE AsTarget(FromConfig(api, MapToConfig(obj.v)))
    ELSE Err("TypeError",
             <<Lit("Expect type 'dict' or 'str' to construct Target, but get: "),
               GetTypeKey(obj)>>)
  ELSE IF info.type = "arr" THEN
    IF ~TryCast(obj, "arr") THEN ObjTypeCheck(obj, "arr", "Array")
    ELSE ParseArrayAnyLoop(api, obj.v, 1, info, <<>>)
  ELSE IF info.type = "map" THEN
    IF ~TryCast(obj, "map") THEN ObjTypeCheck(obj, "map", "Map")
    ELSE ParseMapAnyLoop(api, obj.v, 1, info, <<>>)
  ELSE IF info.type # obj.t
  THEN Err("TypeError", <<Lit("Parsing type \""), Lit(info.type),
                          Lit("\" is not supported for the given object of type \""),
                          GetTypeKey(obj), Lit("\". The object is: "), Obj(obj)>>)
  ELSE Ok(obj)

\* TargetInternal::FromConfigString: "target._load_config_dict" is a function
\* of the Python side and is not registered here.
FromConfigString(api, config_str) ==
  Err("InternalError",
      <<Lit("AttributeError: \"target._load_config_dict\" is not registered.")>>)

\* config.count(key) in FromRawString
KeyUsedNever(config, key) == FALSE
KeyUsed(config, key) == key \in DOMAIN config

\* FromRawString, second try block of the loop body: config[key] = parsed.
FromRawInsert(api, target_str, options, iter, kind, config, kv, parsed) ==
  IF ~parsed.ok THEN Rethrow(parsed, DuringParsingKey(kv.key))
  ELSE FromRawLoop(api, target_str, options, iter + kv.n, kind,
                   MapSet(config, kv.key, parsed.val))

\* ParseType(value, FindTypeInfo(kind, key))
FromRawTyped(api, kv, info) ==
  IF ~info.ok THEN info ELSE ParseTypeStr(api, kv.value, info.val)

\* The text the catch clause of the first try block appends to the message:
\* ", during parsing target " and target_str (written between back quotes).
DuringParsingTarget(target_str) ==
  <<Lit(", during parsing target "), Txt(target_str)>>

\* FromRawString, the loop body on the key-value pair of the first try block.
FromRawOption(api, target_str, options, iter, kind, config, kv) ==
  IF ~kv.ok
  THEN Rethrow(kv, DuringParsingTarget(target_str))
  ELSE FromRawInsert(api, target_str, options, iter, kind, config, kv.val,
         IF KeyUsed(config, kv.val.key)
         THEN Err("ValueError", <<Lit("The key \""), Txt(kv.val.key),
                                  Lit("\" appears more than once")>>)
         ELSE FromRawTyped(api, kv.val, FindTypeInfo(kind, kv.val.key)))

\* ParseKVPair(RemovePrefixDashes(options[iter]), s_next, &key, &value)
FromRawKVPair(stripped, s_next) ==
  IF stripped.ok THEN ParseKVPair(stripped.val, s_next) ELSE stripped

\* The option loop of FromRawString, from option iter (1-based) on.
FromRawLoop(api, target_str, options, iter, kind, config) ==
  IF iter > Len(options) THEN FromConfig(api, config)
  ELSE FromRawOption(api, target_str, options, iter, kind, config,
         FromRawKVPair(RemovePrefixDashes(options[iter]),
                       IF iter + 1 <= Len(options) THEN options[iter + 1] ELSE <<>>))

\* FromRawString once the kind of the first option is looked up.
FromRawOptions(api, target_str, options, found) ==
  IF ~found.ok THEN found
  ELSE FromRawLoop(api, target_str, options, 2, found.val,
                   MapSet(EmptyMap, kKind, AnyStr(options[1])))

\* FromRawString on the split options.  A string of separators only has no
\* first option: reading options[0] is then undefined.
FromRawSplit(api, target_str, options) ==
  IF ~options.ok THEN Err("InternalError", <<Lit("Mismatched quotes '' in string")>>)
  ELSE IF options.val = <<>> THEN Err("Undefined", <<>>)
  ELSE FromRawOptions(api, target_str, options.val,
                      GetTargetKind(IF options.val = <<>> THEN <<>> ELSE options.val[1]))

\* TargetInternal::FromRawString
FromRawString(api, target_str) ==
  IF Len(target_str) = 0
  THEN Err("InternalError", <<Lit("Cannot parse empty target string")>>)
  ELSE FromRawSplit(api, target_str, SplitString(target_str, " "))

\* TargetInternal::FromString
FromString(api, tag_or_config_or_target_str) ==
  IF TargetTagGet(tag_or_config_or_target_str).ok
  THEN TargetTagGet(tag_or_config_or_target_str)
  ELSE IF tag_or_config_or_target_str # <<>> /\ tag_or_config_or_target_str[1] = "{"
  THEN FromConfigString(api, tag_or_config_or_target_str)
  ELSE FromRawString(api, tag_or_config_or_target_str)

\* The keys pushed before de-duplication: the user's, the device name, and the
\* kind's default keys when the user gave none.
UserKeys(config) ==
  IF kKeys \in DOMAIN config
  THEN [i \in 1..Len(config[kKeys].v) |-> config[kKeys].v[i].v] ELSE <<>>
DeviceKey(config) ==
  IF kDeviceName \in DOMAIN config /\ TryCast(config[kDeviceName], "str")
  THEN <<config[kDeviceName].v>> ELSE <<>>
DefaultKeys(kind, config) ==
  IF kKeys \notin DOMAIN config THEN kind.default_keys ELSE <<>>
CollectKeysDeviceLast(kind, config) ==
  UserKeys(config) \o DefaultKeys(kind, config) \o DeviceKey(config)
CollectKeysWithDefaults(kind, config) ==
  UserKeys(config) \o DeviceKey(config) \o kind.default_keys
CollectKeys(kind, config) ==
  UserKeys(config) \o DeviceKey(config) \o DefaultKeys(kind, config)

\* ParseType(value, FindTypeInfo(kind, key))
ParseAttrsTyped(api, obj, info) ==
  IF ~info.ok THEN info ELSE ParseTypeAny(api, obj, info.val)

\* The first position of a sequence of results that holds an error.
FirstError(results) ==
  CHOOSE i \in 1..Len(results) : ~results[i].ok /\ \A j \in 1..(i - 1) : results[j].ok

\* The attribute loop of FromConfig, on the results of its iterations in
\* iteration order: the first error is rethrown with its key, otherwise
\* every key holds its parsed value.
ParseAttrsCollect(order, parsed) ==
  IF \E i \in 1..Len(parsed) : ~parsed[i].ok
  THEN Rethrow(parsed[FirstError(parsed)], DuringParsingKey(order[FirstError(parsed)]))
  ELSE Ok([key \in {order[i] : i \in 1..Len(order)} |->
             parsed[CHOOSE i \in 1..Len(order) : order[i] = key].val])

\* The attribute loop of FromConfig over the remaining entries of the config,
\* visited in `order`; an iteration reads nothing of the iterations before.
ParseAttrsLoop(api, kind, config, order) ==
  ParseAttrsCollect(order,
    [i \in 1..Len(order) |->
       ParseAttrsTyped(api, config[order[i]], FindTypeInfo(kind, order[i]))])

\* TargetInternal::FromConfig, the end: the defaults, the preprocessor and the
\* node.
FromConfigDefaults(kind, features, tag, keys, host, attrs) ==
  IF ~attrs.ok THEN attrs
  ELSE Ok(MakeTargetNode(kind.name, host, tag, keys,
            IF kind.preprocessor # "null"
            THEN ApplyPreprocessor(kind, MergeMissing(attrs.val, kind.key2default_))
            ELSE MergeMissing(attrs.val, kind.key2default_),
            features))

\* TargetInternal::FromConfig: the parameters queried from the device are
\* merged in after "from_device" is erased.
FromConfigQueried(attrs, device_params) ==
  IF ~device_params.ok THEN device_params
  ELSE Ok(MergeMissing(MapErase(attrs, kFromDevice), device_params.val))

\* TargetInternal::FromConfig: the device query on the parsed attributes.
FromConfigDevice(api, kind, parsed) ==
  IF ~parsed.ok THEN parsed
  ELSE IF kFromDevice \in DOMAIN parsed.val
  THEN FromConfigQueried(parsed.val, QueryDevice(api, kind))
  ELSE parsed

\* TargetInternal::FromConfig: the attributes, once the host is there.
FromConfigAttrs(api, kind, features, tag, keys, host, config) ==
  IF ~host.ok THEN host
  ELSE FromConfigDefaults(kind, features, tag, keys, host.val,
         FromConfigDevice(api, kind,
           ParseAttrsLoop(api, kind, MapErase(config, kHost),
                          SortStrings(DOMAIN config \ {kHost}))))

\* TargetInternal::FromConfig: "host".
FromConfigHost(api, kind, features, tag, keys, config) ==
  FromConfigAttrs(api, kind, features, tag, keys,
                  IF kHost \in DOMAIN config
                  THEN ConstructorDispatcher(api, config[kHost]) ELSE Ok(AnyNull),
                  config)

\* The first element of "keys" that is not a string.
FirstNonStringElement(array) ==
  CHOOSE i \in 1..Len(array) :
    ~TryCast(array[i], "str") /\ \A j \in 1..(i - 1) : TryCast(array[j], "str")

\* TargetInternal::FromConfig: "keys".
FromConfigKeys(api, kind, features, tag, config) ==
  IF kKeys \in DOMAIN config /\ ~TryCast(config[kKeys], "arr")
  THEN Err("TypeError", <<Lit("Expect type of field \"keys\" is Array, but get type: "),
                          GetTypeKey(config[kKeys])>>)
  ELSE IF kKeys \in DOMAIN config
          /\ \E i \in 1..Len(config[kKeys].v) : ~TryCast(config[kKeys].v[i], "str")
  THEN Err("TypeError", <<Lit("Expect 'keys' to be an array of strings, but it "),
                          Lit("contains an element of type: "),
                          GetTypeKey(config[kKeys].v[FirstNonStringElement(config[kKeys].v)])>>)
  ELSE FromConfigHost(api, kind, features, tag, DeduplicateKeys(CollectKeys(kind, config)),
                      MapErase(config, kKeys))

\* TargetInternal::FromConfig: "tag".
FromConfigTag(api, kind, features, config) ==
  IF kTag \in DOMAIN config /\ ~TryCast(config[kTag], "str")
  THEN Err("TypeError", <<Lit("Expect type of field \"tag\" is String, but get type: "),
                          GetTypeKey(config[kTag])>>)
  ELSE FromConfigKeys(api, kind, features,
                      IF kTag \in DOMAIN config THEN config[kTag].v ELSE <<>>,
                      MapErase(config, kTag))

\* TargetInternal::FromConfig: the target parser and "features".
FromConfigParsed(api, kind, has_parser, config) ==
  FromConfigTag(api, kind,
                IF has_parser /\ kFeatures \in DOMAIN config
                THEN MapToConfig(config[kFeatures].v) ELSE EmptyMap,
                MapErase(IF has_parser THEN MapErase(config, kFeatures) ELSE config, kKind))

\* TargetInternal::FromConfig: the hooks of the kind.
FromConfigKind(api, found, config) ==
  IF ~found.ok THEN found
  ELSE IF found.val.preprocessor # "null" /\ found.val.target_parser # "null"
  THEN Err("InternalError",
           <<Lit("Cannot use both set_attrs_preprocessor and set_target_parser")>>)
  ELSE FromConfigParsed(api, found.val, found.val.target_parser # "null",
                        IF found.val.target_parser # "null"
                        THEN ApplyTargetParser(found.val, config) ELSE config)

\* TargetInternal::FromConfig: "kind".
FromConfig(api, config) ==
  IF kFeatures \in DOMAIN config
  THEN Err("InternalError", <<Lit("Target Features should be generated by Target parser")>>)
  ELSE IF kKind \notin DOMAIN config
  THEN Err("ValueError", <<Lit("Field \"kind\" is not found")>>)
  ELSE IF ~TryCast(config[kKind], "str")
  THEN Err("TypeError", <<Lit("Expect type of field \"kind\" is String, but get type: "),
                          GetTypeKey(config[kKind])>>)
  ELSE FromConfigKind(api, GetTargetKind(config[kKind].v), config)

\* Target::Target(const String&)
WrapFromStringKeepKind(r, str) ==
  IF r.ok THEN r
  ELSE Err(r.kind, r.msg \o <<Lit(". Target creation from string failed: "), Txt(str)>>)
WrapFromString(r, str) ==
  IF r.ok THEN r
  ELSE Err("ValueError", r.msg \o <<Lit(". Target creation from string failed: "), Txt(str)>>)

TargetFromString(api, str) == WrapFromString(FromString(api, str), str)

\* Target::Target(const Map<String, ffi::Any>&)
WrapFromConfig(r, config) ==
  IF r.ok THEN r
  ELSE Err("ValueError", r.msg \o <<Lit(". Target creation from config dict failed: "),
                                    Obj(AnyMap(ConfigToPairs(config)))>>)

TargetFromConfig(api, config) == WrapFromConfig(FromConfig(api, config), config)

\* TargetInternal::ConstructorDispatcher with one argument.
ConstructorDispatcher(api, arg) ==
  IF TryCast(arg, "target") THEN Ok(arg)
  ELSE IF TryCast(arg, "str") THEN AsTarget(TargetFromString(api, arg.v))
  ELSE IF TryCast(arg, "map") /\ \A i \in 1..Len(arg.v) : arg.v[i].k.t = "str"
  THEN AsTarget(TargetFromConfig(api, MapToConfig(arg.v)))
  ELSE Err("InternalError", <<Lit("TypeError: Cannot create target with type: "),
                              GetTypeKey(arg)>>)

(***************************************************************************)
(* Stringifying and export                                                 *)
(***************************************************************************)

\* TargetInternal::StringifyAtomicType
QuoteIfContains(u, c) == IF Contains(u, c) /\ ~IsQuoted(u) THEN Quote(u) ELSE u

StringifyAtomicType(obj) ==
  IF obj.t = "bool" THEN Ok(IF obj.v THEN <<"1">> ELSE <<"0">>)
  ELSE IF obj.t = "int" THEN Ok(IntToString(obj.v))
  ELSE IF obj.t = "str" THEN
    Ok(QuoteIfContains(Uninterpret(obj.v), " "))
  ELSE Err("InternalError", <<Lit("Cannot stringify object of type "), GetTypeKey(obj)>>)

\* TargetInternal::StringifyArray
RECURSIVE StringifyArrayLoop(_, _, _)
StringifyArrayLoop(array, i, elements) ==
  IF i > Len(array) THEN Ok(JoinString(elements, ","))
  ELSE LET Element(str) ==
             IF ~str.ok THEN str
             ELSE StringifyArrayLoop(array, i + 1,
                    Append(elements, QuoteIfContains(Uninterpret(str.val), ",")))
       IN Element(StringifyAtomicType(array[i]))

StringifyArray(array) == StringifyArrayLoop(array, 1, <<>>)

\* One iteration of the loop of StringifyAttrsToRaw: the value as a string,
\* empty for an undefined value.
StringifyAttr(obj) ==
  IF obj.t = "null" THEN Ok(<<>>)
  ELSE IF obj.t = "arr" THEN StringifyArray(obj.v)
  ELSE StringifyAtomicType(obj)

\* "-" + key + "=" + value
FlagOf(entry) == <<"-">> \o entry.key \o <<"=">> \o entry.value

\* Whether the loop of StringifyAttrsToRaw pushes the entry.
HasValue(entry) == entry.value # <<>>

\* The loop of StringifyAttrsToRaw on the values of the sorted keys: the first
\* error is thrown, otherwise the non-empty values are pushed and joined.
StringifyAttrsJoin(keys, values) ==
  IF \E i \in 1..Len(values) : ~values[i].ok THEN values[FirstError(values)]
  ELSE Ok(JoinString(
            [i \in 1..Len(SelectSeq([j \in 1..Len(keys) |->
                                        [key |-> keys[j], value |-> values[j].val]],
                                     HasValue)) |->
               FlagOf(SelectSeq([j \in 1..Len(keys) |->
                                   [key |-> keys[j], value |-> values[j].val]],
                                HasValue)[i])],
            " "))

\* The loop of StringifyAttrsToRaw over the sorted keys.
StringifyAttrsLoop(attrs, keys) ==
  StringifyAttrsJoin(keys, [i \in 1..Len(keys) |-> StringifyAttr(attrs[keys[i]])])

SortKeysNone(keys) == keys

\* std::sort(keys.begin(), keys.end()) on the keys pushed in the order the map
\* iterates them.
SortKeys(keys) == SortStrings({keys[i] : i \in DOMAIN keys})

\* TargetInternal::StringifyAttrsToRaw on a map that iterates its keys in the
\* given order.
StringifyAttrsIterated(attrs, keys) == StringifyAttrsLoop(attrs, SortKeys(keys))

\* TargetInternal::StringifyAttrsToRaw
StringifyAttrsToRaw(attrs) == StringifyAttrsLoop(attrs, SortStrings(DOMAIN attrs))

StrWithHost(node) ==
  IF node.str_repr_ # <<>> THEN Ok(node.str_repr_)
  ELSE LET Repr(keys_str, attrs_str) ==
             IF ~attrs_str.ok THEN attrs_str
             ELSE Ok(node.kind \o keys_str \o <<" ">> \o attrs_str.val
                       \o (IF node.host.t # "null" THEN <<" ", "-", "h">> ELSE <<>>))
       IN Repr(IF node.keys # <<>>
               THEN <<" ", "-", "k", "e", "y", "s", "=">> \o JoinString(node.keys, ",")
               ELSE <<>>,
               StringifyAttrsToRaw(node.attrs))

\* TargetNode::str on a node: the string returned (the cached one if any).
Str(node) ==
  IF node.str_repr_ # <<>> THEN Ok(node.str_repr_)
  ELSE LET Repr(keys_str, attrs_str) ==
             IF ~attrs_str.ok THEN attrs_str
             ELSE Ok(node.kind \o keys_str \o <<" ">> \o attrs_str.val)
       IN Repr(IF node.keys # <<>>
               THEN <<" ", "-", "k", "e", "y", "s", "=">> \o JoinString(node.keys, ",")
               ELSE <<>>,
               StringifyAttrsToRaw(node.attrs))

\* The node after str(): str_repr_ is filled.
AfterStr(node) ==
  LET Cached(r) == IF r.ok THEN [node EXCEPT !.str_repr_ = r.val] ELSE node
  IN Cached(Str(node))

\* TargetNode::Export
RECURSIVE Export(_)
Export(node) ==
  LET WithAttrs(hosted) ==
        [k \in DOMAIN hosted \cup DOMAIN node.attrs |->
           IF k \in DOMAIN node.attrs THEN node.attrs[k] ELSE hosted[k]]
      Hosted(base) ==
        IF node.host.t = "target"
        THEN WithAttrs(MapSet(base, kHost, AnyMap(ConfigToPairs(Export(node.host.v)))))
        ELSE WithAttrs(base)
  IN Hosted(MapSet(MapSet(MapSet(EmptyMap,
                kKind, AnyStr(node.kind)),
                kTag, AnyStr(node.tag)),
                kKeys, AnyArr([i \in 1..Len(node.keys) |-> AnyStr(node.keys[i])])))

(***************************************************************************)
(* Construction pipeline: a Target is constructed from a raw string or a   *)
(* config map, then re-constructed from its str() or from its Export().    *)
(***************************************************************************)

\* Most flags after the kind name in a raw input string.
MaxFlags == 2

\* Most entries besides "kind" in an input config map.
MaxEntries == 2

\* The device API a process may run with: none compiled in, one without the
\* device asked for, one whose device reports the properties a and o, and one
\* whose device reports no property (GetTargetProperty leaves ret as it is).
ApiUnavailable == [available |-> FALSE, exists |-> FALSE, props |-> EmptyMap]
ApiNoDevice == [available |-> TRUE, exists |-> FALSE, props |-> EmptyMap]
ApiReporting ==
  [available |-> TRUE, exists |-> TRUE,
   props |-> MapSet(MapSet(EmptyMap, <<"a">>, AnyInt(9)), <<"o">>, AnyInt(4))]
ApiSilent == [available |-> TRUE, exists |-> TRUE, props |-> EmptyMap]
DeviceApis == {ApiUnavailable, ApiNoDevice, ApiReporting, ApiSilent}

\* A kind name that is not registered.
UnknownName == <<"q">>

\* Flags of the raw input strings, each with the key it is meant to set (none
\* for a token without a dash and for one of dashes only).
RawFlags ==
  <<[key |-> <<"a">>, text |-> <<"-", "a", "=", "1">>],
    [key |-> <<"a">>, text |-> <<"-", "a", " ", "2">>],
    [key |-> <<"a">>, text |-> <<"-", "-", "a">>],
    [key |-> <<"b">>, text |-> <<"-", "b", "=", "T", "r", "u", "e">>],
    [key |-> <<"s">>, text |-> <<"-", "s", "=", "x">>],
    [key |-> <<"s">>, text |-> <<"-", "s", "=", "'", "x", " ", "y", "'">>],
    [key |-> <<"l">>, text |-> <<"-", "l", "=", "x", ",", "y">>],
    [key |-> <<"k", "e", "y", "s">>, text |-> <<"-", "k", "e", "y", "s", "=", "x", ",", "y", ",", "x">>],
    [key |-> <<"d", "e", "v", "i", "c", "e">>, text |-> <<"-", "d", "e", "v", "i", "c", "e", "=", "y">>],
    [key |-> <<"z", "z">>, text |-> <<"-", "z", "z", "=", "1">>],
    [key |-> <<"h", "o", "s", "t">>, text |-> <<"-", "h", "o", "s", "t", "=", "c", "u", "d", "a">>],
    [key |-> <<"f", "r", "o", "m", "_", "d", "e", "v", "i", "c", "e">>, text |-> <<"-", "f", "r", "o", "m", "_", "d", "e", "v", "i", "c", "e", "=", "0">>],
    [key |-> <<"a">>, text |-> <<"-", "a", "=", "x">>],
    [key |-> <<>>, text |-> <<"a", "=", "1">>],
    [key |-> <<>>, text |-> <<"-", "-">>]>>

RECURSIVE FlagLists(_)
FlagLists(n) ==
  IF n = 0 THEN {<<>>}
  ELSE LET shorter == FlagLists(n - 1) IN
       shorter \cup {Append(fl, i) : fl \in {g \in shorter : Len(g) = n - 1},
                                     i \in 1..Len(RawFlags)}

RECURSIVE RawText(_, _)
RawText(name, fl) ==
  IF fl = <<>> THEN name
  ELSE RawText(name, SubSeq(fl, 1, Len(fl) - 1)) \o <<" ">> \o RawFlags[fl[Len(fl)]].text

RawInputs ==
  {[form |-> "str", s |-> RawText(name, fl), flags |-> fl, kind |-> name] :
     name \in {LlvmName, UnknownName}, fl \in FlagLists(MaxFlags)}

\* Entries of the input config maps.
CfgEntries ==
  <<[key |-> kKeys, val |-> AnyArr(<<AnyStr(<<"x">>)>>)],
    [key |-> kKeys, val |-> AnyArr(<<AnyStr(<<"x">>), AnyStr(<<"y">>), AnyStr(<<"x">>)>>)],
    [key |-> kKeys, val |-> AnyArr(<<AnyStr(<<"c", "p", "u">>), AnyStr(<<"y">>)>>)],
    [key |-> kKeys, val |-> AnyStr(<<"x">>)],
    [key |-> kDeviceName, val |-> AnyStr(<<"y">>)],
    [key |-> kDeviceName, val |-> AnyStr(<<"c", "p", "u">>)],
    [key |-> kHost, val |-> AnyStr(CudaName)],
    [key |-> kHost, val |-> AnyStr(UnknownName)],
    [key |-> kHost, val |-> AnyMap(<<[k |-> AnyStr(kKind), v |-> AnyStr(CudaName)],
                                     [k |-> AnyStr(<<"a">>), v |-> AnyInt(3)]>>)],
    [key |-> kTag, val |-> AnyStr(<<"t">>)],
    [key |-> <<"a">>, val |-> AnyInt(1)],
    [key |-> <<"a">>, val |-> AnyInt(0 - 12)],
    [key |-> <<"a">>, val |-> AnyStr(<<"1">>)],
    [key |-> <<"b">>, val |-> AnyBool(TRUE)],
    [key |-> <<"s">>, val |-> AnyStr(<<"x">>)],
    [key |-> <<"s">>, val |-> AnyStr(<<"x", " ", "y">>)],
    [key |-> <<"s">>, val |-> AnyStr(<<"'", "x", "\\">>)],
    [key |-> <<"l">>, val |-> AnyArr(<<AnyStr(<<"x">>), AnyStr(<<"y">>)>>)],
    [key |-> <<"l">>, val |-> AnyArr(<<AnyStr(<<"x", ",", "y">>)>>)],
    [key |-> <<"l">>, val |-> AnyArr(<<AnyStr(<<"x", " ", "y">>)>>)],
    [key |-> <<"o">>, val |-> AnyInt(5)],
    [key |-> <<"z", "z">>, val |-> AnyInt(1)],
    [key |-> kFromDevice, val |-> AnyInt(0)]>>

\* The "kind" entry of an input config: a registered kind, an unregistered
\* one, or none.
KindChoices == {<<AnyStr(LlvmName)>>, <<AnyStr(UnknownName)>>, <<>>}

RECURSIVE EntrySetsUpTo(_)
EntrySetsUpTo(n) ==
  IF n = 0 THEN {{}}
  ELSE LET smaller == EntrySetsUpTo(n - 1) IN
       smaller \cup UNION {{es \cup {i} : i \in {j \in 1..Len(CfgEntries) :
                                 \A e \in es : CfgEntries[e].key # CfgEntries[j].key}} :
                            es \in smaller}

EntrySets == EntrySetsUpTo(MaxEntries)

ConfigOf(kc, es) ==
  [k \in {CfgEntries[i].key : i \in es} \cup (IF kc = <<>> THEN {} ELSE {kKind}) |->
     IF k = kKind THEN kc[1]
     ELSE CfgEntries[CHOOSE i \in es : CfgEntries[i].key = k].val]

CfgInputs ==
  {[form |-> "cfg", c |-> ConfigOf(kc, es), entries |-> es, kind |-> kc] :
     kc \in KindChoices, es \in EntrySets}

\* Whether the input asks for the device query.
UsesFromDevice(input) ==
  IF input.form = "str"
  THEN \E i \in 1..Len(input.flags) : RawFlags[input.flags[i]].key = kFromDevice
  ELSE kFromDevice \in DOMAIN input.c

NoResult == Err("none", <<>>)

BuildInit ==
  /\ \/ b_input \in RawInputs
     \/ b_input \in CfgInputs
  /\ b_api \in IF UsesFromDevice(b_input) THEN DeviceApis ELSE {ApiUnavailable}
  /\ b_inner = NoResult
  /\ b_res = NoResult
  /\ b_mid = NoResult
  /\ b_again = NoResult
  /\ b_pc = "start"

BuildIdle ==
  /\ b_input = [form |-> "none"]
  /\ b_api = ApiUnavailable
  /\ b_inner = NoResult
  /\ b_res = NoResult
  /\ b_mid = NoResult
  /\ b_again = NoResult
  /\ b_pc = "off"

\* Target t(str)
NewFromString ==
  /\ b_pc = "start" /\ b_input.form = "str"
  /\ b_inner' = FromString(b_api, b_input.s)
  /\ b_res' = TargetFromString(b_api, b_input.s)
  /\ b_pc' = "built"
  /\ UNCHANGED <<b_input, b_api, b_mid, b_again>>
  /\ UNCHANGED <<ctx_vars, str_vars, heap_vars, flat_vars, fn_vars>>

\* Target t(config)
NewFromConfig ==
  /\ b_pc = "start" /\ b_input.form = "cfg"
  /\ b_inner' = FromConfig(b_api, b_input.c)
  /\ b_res' = TargetFromConfig(b_api, b_input.c)
  /\ b_pc' = "built"
  /\ UNCHANGED <<b_input, b_api, b_mid, b_again>>
  /\ UNCHANGED <<ctx_vars, str_vars, heap_vars, flat_vars, fn_vars>>

\* t->str()
CallStr ==
  /\ b_pc = "built" /\ b_res.ok
  /\ b_mid' = Str(b_res.val)
  /\ b_res' = Ok(AfterStr(b_res.val))
  /\ b_pc' = "str"
  /\ UNCHANGED <<b_input, b_api, b_inner, b_again>>
  /\ UNCHANGED <<ctx_vars, str_vars, heap_vars, flat_vars, fn_vars>>

\* Target t2(t->str())
ReparseStr ==
  /\ b_pc = "str" /\ b_mid.ok
  /\ b_again' = TargetFromString(b_api, b_mid.val)
  /\ b_pc' = "reparsed"
  /\ UNCHANGED <<b_input, b_api, b_inner, b_res, b_mid>>
  /\ UNCHANGED <<ctx_vars, str_vars, heap_vars, flat_vars, fn_vars>>

\* t->Export()
CallExport ==
  /\ b_pc = "built" /\ b_res.ok
  /\ b_mid' = Ok(Export(b_res.val))
  /\ b_pc' = "exported"
  /\ UNCHANGED <<b_input, b_api, b_inner, b_res, b_again>>
  /\ UNCHANGED <<ctx_vars, str_vars, heap_vars, flat_vars, fn_vars>>

\* TargetInternal::FromConfig(t->Export())
Reingest ==
  /\ b_pc = "exported"
  /\ b_again' = FromConfig(b_api, b_mid.val)
  /\ b_pc' = "reingested"
  /\ UNCHANGED <<b_input, b_api, b_inner, b_res, b_mid>>
  /\ UNCHANGED <<ctx_vars, str_vars, heap_vars, flat_vars, fn_vars>>

BuildNext ==
  \/ NewFromString
  \/ NewFromConfig
  \/ CallStr
  \/ ReparseStr
  \/ CallExport
  \/ Reingest

(***************************************************************************)
(* Host copies: Target objects on a heap, referred to by ObjectRefs        *)
(***************************************************************************)

\* Most TargetNode objects allocated in a run.
MaxObjs == 4

\* An ObjectRef to the i-th allocated object; AnyNull is the undefined one.
ObjectRef(i) == [t |-> "ref", v |-> i]

\* ObjectRef::defined
Defined(ref) == ref.t # "null"

\* TargetInternal::WithHost on the node `target`: the node of the new object,
\* a copy of *target.get() with the host assigned.
WithHostKeepExisting(target, target_host) ==
  IF Defined(target.host) THEN target ELSE [target EXCEPT !.host = target_host]
WithHost(target, target_host) == [target EXCEPT !.host = target_host]

\* Target::Target(Target target, Target host): the node of the new object.
TargetWithHost(target, host) == [target EXCEPT !.host = host]

\* Target::WithoutHost on the node behind *this: the node of the new object
\* (called only when the node has a host).
WithoutHost(this) == [this EXCEPT !.host = AnyNull]

\* The nodes the heap starts with: Targets constructed from config maps that
\* name no host.
BaseConfigs ==
  {MapSet(EmptyMap, kKind, AnyStr(LlvmName)),
   MapSet(MapSet(EmptyMap, kKind, AnyStr(LlvmName)), <<"a">>, AnyInt(1)),
   MapSet(MapSet(EmptyMap, kKind, AnyStr(CudaName)), kKeys, AnyArr(<<AnyStr(<<"x">>)>>))}

BaseNodes == {FromConfig(ApiUnavailable, config).val : config \in BaseConfigs}

NoHeapOp == [op |-> "none", target |-> AnyNull, host |-> AnyNull, ret |-> AnyNull]

HeapInit ==
  /\ heap \in {<<n1, n2>> : n1 \in BaseNodes, n2 \in BaseNodes}
  /\ h_last = NoHeapOp

HeapIdle ==
  /\ heap = <<>>
  /\ h_last = NoHeapOp

\* Target::WithHost(target, host)
CallWithHost ==
  /\ Len(heap) < MaxObjs
  /\ \E target \in 1..Len(heap), host \in 1..Len(heap) :
       /\ heap' = Append(heap, WithHost(heap[target], ObjectRef(host)))
       /\ h_last' = [op |-> "WithHost", target |-> ObjectRef(target),
                     host |-> ObjectRef(host), ret |-> ObjectRef(Len(heap) + 1)]
  /\ UNCHANGED <<ctx_vars, str_vars, build_vars, flat_vars, fn_vars>>

\* Target t2(target, host)
NewTargetWithHost ==
  /\ Len(heap) < MaxObjs
  /\ \E target \in 1..Len(heap), host \in 1..Len(heap) :
       /\ heap' = Append(heap, TargetWithHost(heap[target], ObjectRef(host)))
       /\ h_last' = [op |-> "Target", target |-> ObjectRef(target),
                     host |-> ObjectRef(host), ret |-> ObjectRef(Len(heap) + 1)]
  /\ UNCHANGED <<ctx_vars, str_vars, build_vars, flat_vars, fn_vars>>

\* target.WithoutHost()
CallWithoutHost ==
  /\ Len(heap) < MaxObjs
  /\ \E this \in 1..Len(heap) :
       IF Defined(heap[this].host)
       THEN /\ heap' = Append(heap, WithoutHost(heap[this]))
            /\ h_last' = [op |-> "WithoutHost", target |-> ObjectRef(this),
                          host |-> AnyNull, ret |-> ObjectRef(Len(heap) + 1)]
       ELSE /\ heap' = heap
            /\ h_last' = [op |-> "WithoutHost", target |-> ObjectRef(this),
                          host |-> AnyNull, ret |-> ObjectRef(this)]
  /\ UNCHANGED <<ctx_vars, str_vars, build_vars, flat_vars, fn_vars>>

\* target->str(): the string is returned and kept in str_repr_ of the node.
CallStrOf ==
  \E this \in 1..Len(heap) :
    /\ heap' = [heap EXCEPT ![this] = AfterStr(@)]
    /\ h_last' = [op |-> "str", target |-> ObjectRef(this), host |-> AnyNull,
                  ret |-> AnyNull, str |-> Str(heap[this])]
    /\ UNCHANGED <<ctx_vars, str_vars, build_vars, flat_vars, fn_vars>>

HeapNext ==
  \/ CallWithHost
  \/ NewTargetWithHost
  \/ CallWithoutHost
  \/ CallStrOf

(***************************************************************************)
(* SeqStmt::Flatten: statements are values; an argument is a Stmt          *)
(* reference (undefined, Evaluate, SeqStmt or another statement) or an     *)
(* Array of arguments.                                                     *)
(***************************************************************************)

\* Most nodes (statements and arrays) in the two arguments together.
MaxWeight == 5

UndefinedStmt == [t |-> "undef", v |-> 0]
\* Evaluate(value) for an IntImm value.
Evaluate(value) == [t |-> "eval", v |-> value]
\* A statement that is neither a SeqStmt nor an Evaluate.
OtherStmt(id) == [t |-> "stmt", v |-> id]
SeqStmt(seq) == [t |-> "seq", v |-> seq]
ArrayOf(items) == [t |-> "arr", v |-> items]

\* Evaluate(0), the no-op that Flatten returns for an empty sequence.
IsNoOpNever(stmt) == FALSE
IsNoOp(stmt) == stmt.t = "eval" /\ stmt.v = 0

\* Flattener::operator(): appends to *seq_ what stmt_or_seq contributes.
RECURSIVE Flattener(_, _), FlattenerEach(_, _)
Flattener(seq_, stmt_or_seq) ==
  IF stmt_or_seq.t = "undef" THEN seq_
  ELSE IF stmt_or_seq.t = "seq" THEN FlattenerEach(seq_, stmt_or_seq.v)
  ELSE IF IsNoOp(stmt_or_seq) THEN seq_
  ELSE IF stmt_or_seq.t \in {"eval", "stmt"} THEN Append(seq_, stmt_or_seq)
  ELSE FlattenerEach(seq_, stmt_or_seq.v)

\* for (auto v : stmt_or_seq) this->operator()(0, v), and for_each over the
\* arguments of Flatten.
FlattenerEach(seq_, items) ==
  IF items = <<>> THEN seq_
  ELSE Flattener(FlattenerEach(seq_, SubSeq(items, 1, Len(items) - 1)),
                 items[Len(items)])

\* Flattener::AsSeqStmt: the argument as a SeqStmt, if it is one.
AsSeqStmt(t) == IF t.t = "seq" THEN t ELSE UndefinedStmt

\* The all_same lambda of Flatten.  same_as compares references; an element
\* of seq is the reference taken from the arguments, and where the two lists
\* first differ the original holds a dropped or a nested statement, which
\* seq never holds, so comparing the values decides the same.
AllSame(original, seq) ==
  /\ Len(original.v) = Len(seq)
  /\ \A i \in 1..Len(seq) : original.v[i] = seq[i]

\* SeqStmt::Flatten, once the arguments are flattened into seq.
FlattenResult(seq_args, seq) ==
  IF seq = <<>> THEN Evaluate(0)
  ELSE IF Len(seq) = 1 THEN seq[1]
  ELSE IF /\ Len(seq_args) = 1
          /\ AsSeqStmt(seq_args[1]).t = "seq"
          /\ AllSame(AsSeqStmt(seq_args[1]), seq)
  THEN AsSeqStmt(seq_args[1])
  ELSE SeqStmt(seq)

\* SeqStmt::Flatten(seq_args...)
Flatten(seq_args) == FlattenResult(seq_args, FlattenerEach(<<>>, seq_args))

\* The statements and the arguments of a given weight: a reference weighs
\* one, a SeqStmt or an Array one more than its elements.  The elements of a
\* SeqStmt are statements; those of an Array are statements or Arrays.
LeafStmts == {UndefinedStmt, Evaluate(0), Evaluate(1), OtherStmt(1)}

ItemsOfWeight(w, of) ==
  {<<x>> : x \in of[w]}
    \cup UNION {{<<x, y>> : x \in of[i], y \in of[w - i]} : i \in 1..(w - 1)}

\* The arguments of each weight up to max, built weight by weight from the
\* statements and the arguments of the lighter weights.
RECURSIVE ArgsOfWeight(_, _, _)
ArgsOfWeight(max, stmts, args) ==
  IF Len(args) >= max THEN args
  ELSE LET w == Len(args) + 1
           s == IF w = 1 THEN LeafStmts \cup {SeqStmt(<<>>)}
                ELSE {SeqStmt(items) : items \in ItemsOfWeight(w - 1, stmts)}
           a == IF w = 1 THEN s \cup {ArrayOf(<<>>)}
                ELSE s \cup {ArrayOf(items) : items \in ItemsOfWeight(w - 1, args)}
       IN ArgsOfWeight(max, Append(stmts, s), Append(args, a))

PairsOfWeight(total, args) ==
  UNION {{<<a, b>> : a \in args[p[1]], b \in args[p[2]]} :
           p \in {q \in (1..total) \X (1..total) : q[1] + q[2] <= total}}

ArgPairs(total) == PairsOfWeight(total, ArgsOfWeight(total - 1, <<>>, <<>>))

NoStmt == [t |-> "none", v |-> 0]

FlatInit ==
  /\ flat_args \in ArgPairs(MaxWeight)
  /\ flat_one = NoStmt
  /\ flat_parts = <<>>
  /\ flat_two = NoStmt
  /\ flat_pc = "start"

FlatIdle ==
  /\ flat_args = <<>>
  /\ flat_one = NoStmt
  /\ flat_parts = <<>>
  /\ flat_two = NoStmt
  /\ flat_pc = "off"

\* Stmt one = SeqStmt::Flatten(a, b)
CallFlatten ==
  /\ flat_pc = "start"
  /\ flat_one' = Flatten(flat_args)
  /\ flat_pc' = "flat"
  /\ UNCHANGED <<flat_args, flat_parts, flat_two>>
  /\ UNCHANGED <<ctx_vars, str_vars, build_vars, heap_vars, fn_vars>>

\* Stmt fa = SeqStmt::Flatten(a), fb = SeqStmt::Flatten(b)
CallFlattenEach ==
  /\ flat_pc = "flat"
  /\ flat_parts' = <<Flatten(<<flat_args[1]>>), Flatten(<<flat_args[2]>>)>>
  /\ flat_pc' = "parts"
  /\ UNCHANGED <<flat_args, flat_one, flat_two>>
  /\ UNCHANGED <<ctx_vars, str_vars, build_vars, heap_vars, fn_vars>>

\* Stmt two = SeqStmt::Flatten(fa, fb)
CallFlattenParts ==
  /\ flat_pc = "parts"
  /\ flat_two' = Flatten(flat_parts)
  /\ flat_pc' = "done"
  /\ UNCHANGED <<flat_args, flat_one, flat_parts>>
  /\ UNCHANGED <<ctx_vars, str_vars, build_vars, heap_vars, fn_vars>>

FlatNext ==
  \/ CallFlatten
  \/ CallFlattenEach
  \/ CallFlattenParts

(***************************************************************************)
(* IntImm (src/ir/expr.cc).  An int64_t is a sign and a magnitude of four   *)
(* limbs of 16 bits, least significant first.                              *)
(***************************************************************************)

\* 2^k for 0 <= k < 64, and 2^k - 1, as magnitudes.
PowerOfTwo(k) == [i \in 1..4 |-> IF i - 1 = k \div 16 THEN 2 ^ (k % 16) ELSE 0]
BelowPowerOfTwo(k) ==
  [i \in 1..4 |-> IF i - 1 < k \div 16 THEN 65535
                  ELSE IF i - 1 = k \div 16 THEN 2 ^ (k % 16) - 1 ELSE 0]

Int64(neg, mag) == [neg |-> neg, mag |-> mag]
Int64Zero == Int64(FALSE, <<0, 0, 0, 0>>)
Int64One == Int64(FALSE, <<1, 0, 0, 0>>)

\* operator< on magnitudes and on int64_t.
MagLess(a, b) == \E i \in 1..4 : a[i] < b[i] /\ \A j \in (i + 1)..4 : a[j] = b[j]
Int64Less(x, y) ==
  IF x.neg # y.neg THEN x.neg
  ELSE IF x.neg THEN MagLess(y.mag, x.mag) ELSE MagLess(x.mag, y.mag)

\* Unary minus on an int64_t that is not the smallest one.
Int64Negate(x) == IF x = Int64Zero THEN x ELSE Int64(~x.neg, x.mag)

\* 1LL << n for 0 <= n < 64; the shift by 63 gives the smallest int64_t.
ShiftOneFurther(n) == Int64(FALSE, PowerOfTwo(IF n < 62 THEN n + 1 ELSE n))
ShiftOne(n) == Int64(n = 63, PowerOfTwo(n))

\* DataType: type code, bits and lanes.
DataType(code, bits, lanes) == [code |-> code, bits |-> bits, lanes |-> lanes]
is_scalar(dtype) == dtype.lanes = 1
is_int(dtype) == dtype.code = "int"
is_uint(dtype) == dtype.code = "uint"

\* The checks of IntImm::IntImm on the value, for an integer scalar dtype;
\* the message of the first one that fails, <<>> when none does.
IntImmRange(dtype, value) ==
  IF is_uint(dtype) THEN
    IF Int64Less(value, Int64Zero)
    THEN <<Lit("ValueError: Literal value "), Obj(value),
           Lit(" is negative for unsigned integer type "), Obj(dtype)>>
    ELSE IF dtype.bits < 64 /\ ~Int64Less(value, ShiftOne(dtype.bits))
    THEN <<Lit("ValueError: Literal value "), Obj(value),
           Lit(" exceeds maximum of "), Obj(dtype)>>
    ELSE <<>>
  ELSE IF dtype.bits = 1 THEN
    IF value = Int64Zero \/ value = Int64One THEN <<>>
    ELSE <<Lit("ValueError: "), Obj(value), Lit(" exceeds range of "), Obj(dtype)>>
  ELSE IF dtype.bits < 64 THEN
    IF Int64Less(value, Int64Negate(ShiftOne(dtype.bits - 1)))
    THEN <<Lit("ValueError: Literal value "), Obj(value),
           Lit(" exceeds minimum of "), Obj(dtype)>>
    ELSE IF ~Int64Less(value, ShiftOne(dtype.bits - 1))
    THEN <<Lit("ValueError: Literal value "), Obj(value),
           Lit(" exceeds maximum of "), Obj(dtype)>>
    ELSE <<>>
  ELSE <<>>

\* IntImm::IntImm(dtype, value, span): the node, or the failed ICHECK.
IntImm(dtype, value) ==
  IF ~is_scalar(dtype)
  THEN Err("InternalError", <<Lit("ValueError: IntImm can only take scalar, but "),
                              Obj(dtype), Lit(" was supplied.")>>)
  ELSE IF ~(is_int(dtype) \/ is_uint(dtype))
  THEN Err("InternalError", <<Lit("ValueError: IntImm supports only int or uint type, but "),
                              Obj(dtype), Lit(" was supplied.")>>)
  ELSE IF IntImmRange(dtype, value) # <<>>
  THEN Err("InternalError", IntImmRange(dtype, value))
  ELSE Ok([dtype |-> dtype, value |-> value])

(***************************************************************************)
(* Functions of the parser and of the stringifier called on their own      *)
(***************************************************************************)

\* Longest token handed to ParseKVPair and RemovePrefixDashes.
MaxTokenLen == 3

\* Characters of the tokens: the dash, the equals sign and a letter.
TokenAlphabet == {"-", "=", "a"}

NoCall == [op |-> "none"]

\* Longest array value handed to ParseType.
MaxArrLen == 5

\* Characters of the array values: a digit, a letter, the comma and the space.
ArrAlphabet == {"1", "x", ",", " "}

\* Schemas of the arrays: of integers, of booleans, and of maps (which
\* ParseType does not parse from a string).
ArrInfos == {InfoArr(InfoInt), InfoArr(InfoBool), InfoArr(InfoMap(InfoStr, InfoInt))}

\* Most attributes of a map handed to StringifyAttrsToRaw.
MaxAttrs == 3

\* Keys and values of the attribute maps: an undefined value, an integer, a
\* boolean, strings (empty, and with a space) and arrays (empty, and of two).
AttrKeys == {<<"A">>, <<"a">>, <<"a", "b">>, <<"b">>}
AttrValues ==
  {AnyNull, AnyInt(7), AnyBool(TRUE), AnyStr(<<>>), AnyStr(<<"x", " ", "y">>),
   AnyArr(<<>>), AnyArr(<<AnyStr(<<"x">>), AnyStr(<<"y">>)>>)}

\* A flag token as the option loop hands it to RemovePrefixDashes.
DashInit ==
  \E n \in 1..MaxTokenLen :
    \E s \in [1..n -> TokenAlphabet] : fn_in = [op |-> "RemovePrefixDashes", s |-> s]

\* A dash-stripped token (not empty, no leading dash) and the token after it
\* (empty when there is none).
KVInit ==
  \E n \in 1..MaxTokenLen, m \in 0..MaxTokenLen :
    \E s \in [1..n -> TokenAlphabet], s_next \in [1..m -> TokenAlphabet] :
      /\ s[1] # "-"
      /\ fn_in = [op |-> "ParseKVPair", s |-> s, s_next |-> s_next]

\* An array value and the schema of its attribute.
ArrInit ==
  \E n \in 0..MaxArrLen :
    \E s \in [1..n -> ArrAlphabet], info \in ArrInfos :
      fn_in = [op |-> "ParseType", s |-> s, info |-> info]

\* The values handed to IntImm: 2^k and 2^k - 1 and their negatives, within
\* int64_t; and the dtypes: integer, unsigned and float, of some widths,
\* scalar and of two lanes.
ValueSamples ==
  {v \in [neg : BOOLEAN, k : 0..63, below : BOOLEAN] :
     /\ v.neg => ~(v.k = 0 /\ v.below)
     /\ (~v.neg /\ v.k = 63) => v.below}
ValueOf(v) == Int64(v.neg, IF v.below THEN BelowPowerOfTwo(v.k) ELSE PowerOfTwo(v.k))
DataTypes ==
  {DataType(code, bits, lanes) :
     code \in {"int", "uint", "float"}, bits \in {1, 2, 8, 32, 63, 64}, lanes \in {1, 2}}

\* A dtype and a value for IntImm; the sample the value was made from is kept.
IntImmInit ==
  \E dtype \in DataTypes, v \in ValueSamples :
    fn_in = [op |-> "IntImm", dtype |-> dtype, value |-> ValueOf(v), sample |-> v]

\* An attribute map: its keys in the order the map iterates them (the order
\* of insertion) and the value of each.
AttrsInit ==
  \E n \in 0..MaxAttrs :
    \E keys \in [1..n -> AttrKeys], values \in [1..n -> AttrValues] :
      /\ \A i, j \in 1..n : keys[i] = keys[j] => i = j
      /\ fn_in = [op |-> "StringifyAttrsToRaw", keys |-> keys,
                  attrs |-> [k \in {keys[i] : i \in 1..n} |->
                               values[CHOOSE i \in 1..n : keys[i] = k]]]

FnInit ==
  /\ KVInit \/ DashInit \/ ArrInit \/ AttrsInit \/ IntImmInit
  /\ fn_out = NoResult
  /\ fn_pc = "start"

FnIdle ==
  /\ fn_in = NoCall
  /\ fn_out = NoResult
  /\ fn_pc = "off"

\* ParseKVPair(s, s_next, &key, &value)
CallParseKVPair ==
  /\ fn_pc = "start" /\ fn_in.op = "ParseKVPair"
  /\ fn_out' = ParseKVPair(fn_in.s, fn_in.s_next)
  /\ fn_pc' = "returned"
  /\ UNCHANGED fn_in
  /\ UNCHANGED <<ctx_vars, str_vars, build_vars, heap_vars, flat_vars>>

\* RemovePrefixDashes(s)
CallRemovePrefixDashes ==
  /\ fn_pc = "start" /\ fn_in.op = "RemovePrefixDashes"
  /\ fn_out' = RemovePrefixDashes(fn_in.s)
  /\ fn_pc' = "returned"
  /\ UNCHANGED fn_in
  /\ UNCHANGED <<ctx_vars, str_vars, build_vars, heap_vars, flat_vars>>

\* TargetInternal::ParseType(str, info)
CallParseType ==
  /\ fn_pc = "start" /\ fn_in.op = "ParseType"
  /\ fn_out' = ParseTypeStr(ApiUnavailable, fn_in.s, fn_in.info)
  /\ fn_pc' = "returned"
  /\ UNCHANGED fn_in
  /\ UNCHANGED <<ctx_vars, str_vars, build_vars, heap_vars, flat_vars>>

\* TargetInternal::StringifyAttrsToRaw(attrs)
CallStringifyAttrsToRaw ==
  /\ fn_pc = "start" /\ fn_in.op = "StringifyAttrsToRaw"
  /\ fn_out' = StringifyAttrsIterated(fn_in.attrs, fn_in.keys)
  /\ fn_pc' = "returned"
  /\ UNCHANGED fn_in
  /\ UNCHANGED <<ctx_vars, str_vars, build_vars, heap_vars, flat_vars>>

\* IntImm(dtype, value)
CallIntImm ==
  /\ fn_pc = "start" /\ fn_in.op = "IntImm"
  /\ fn_out' = IntImm(fn_in.dtype, fn_in.value)
  /\ fn_pc' = "returned"
  /\ UNCHANGED fn_in
  /\ UNCHANGED <<ctx_vars, str_vars, build_vars, heap_vars, flat_vars>>

FnNext ==
  \/ CallIntImm
  \/ CallStringifyAttrsToRaw
  \/ CallParseKVPair
  \/ CallRemovePrefixDashes
  \/ CallParseType

\* The separators SplitString is called with: of the flags of a raw string
\* and of the elements of an array value.
Separators == {" ", ","}

NoSplit == [sep |-> "", res |-> [ok |-> FALSE, val |-> <<>>]]

StrInit ==
  /\ \E n \in 0..MaxStrLen : str_in \in StringsOfLen(n)
  /\ str_mid = <<>>
  /\ str_out = <<>>
  /\ str_quoted = FALSE
  /\ str_split = NoSplit
  /\ str_pc = "start"

StrIdle ==
  /\ str_in = <<>> /\ str_mid = <<>> /\ str_out = <<>>
  /\ str_quoted = FALSE /\ str_split = NoSplit /\ str_pc = "off"

\* auto u = Uninterpret(s)
ApplyUninterpret ==
  /\ str_pc = "start"
  /\ str_mid' = Uninterpret(str_in)
  /\ str_pc' = "uninterpreted"
  /\ UNCHANGED <<str_in, str_out, str_quoted, str_split>>
  /\ UNCHANGED <<ctx_vars, build_vars, heap_vars, flat_vars, fn_vars>>

\* std::string interp_str = Interpret(str)
ApplyInterpret ==
  /\ str_pc = "uninterpreted"
  /\ str_out' = Interpret(str_mid)
  /\ str_pc' = "interpreted"
  /\ UNCHANGED <<str_in, str_mid, str_quoted, str_split>>
  /\ UNCHANGED <<ctx_vars, build_vars, heap_vars, flat_vars, fn_vars>>

\* bool q = IsQuoted(s)
ApplyIsQuoted ==
  /\ str_pc = "start"
  /\ str_quoted' = IsQuoted(str_in)
  /\ str_pc' = "checked"
  /\ UNCHANGED <<str_in, str_mid, str_out, str_split>>
  /\ UNCHANGED <<ctx_vars, build_vars, heap_vars, flat_vars, fn_vars>>

\* std::string v = Interpret(s)
ApplyInterpretDirect ==
  /\ str_pc = "checked"
  /\ str_out' = Interpret(str_in)
  /\ str_pc' = "direct"
  /\ UNCHANGED <<str_in, str_mid, str_quoted, str_split>>
  /\ UNCHANGED <<ctx_vars, build_vars, heap_vars, flat_vars, fn_vars>>

\* std::vector<std::string> words = SplitString(s, separator)
ApplySplitString ==
  /\ str_pc = "direct"
  /\ \E separator \in Separators :
       str_split' = [sep |-> separator, res |-> SplitString(str_in, separator)]
  /\ str_pc' = "split"
  /\ UNCHANGED <<str_in, str_mid, str_out, str_quoted>>
  /\ UNCHANGED <<ctx_vars, build_vars, heap_vars, flat_vars, fn_vars>>

StrNext ==
  \/ ApplyUninterpret
  \/ ApplyInterpret
  \/ ApplyIsQuoted
  \/ ApplyInterpretDirect
  \/ ApplySplitString

CtxIdle ==
  /\ context_stack = [e \in Threads |-> <<>>]
  /\ last_op = [op |-> "none", thread |-> "th1", arg |-> NullTarget,
                allow |-> TRUE, status |-> "ok", ret |-> NullTarget, before |-> <<>>]
  /\ enter_hist = [th \in Threads |-> <<>>]
  /\ scope_count = [th \in Threads |-> [enters |-> 0, exits |-> 0]]

Init == CtxInit /\ StrIdle /\ BuildIdle /\ HeapIdle /\ FlatIdle /\ FnIdle

Next == CtxNext

Spec == Init /\ [][Next]_vars

\* The quoting/escaping engine applied to every bounded input string.
InitStr == CtxIdle /\ StrInit /\ BuildIdle /\ HeapIdle /\ FlatIdle /\ FnIdle

SpecStr == InitStr /\ [][StrNext]_vars

\* Targets constructed from every bounded raw string and config map.
InitBuild == CtxIdle /\ StrIdle /\ BuildInit /\ HeapIdle /\ FlatIdle /\ FnIdle

SpecBuild == InitBuild /\ [][BuildNext]_vars

\* Host copies taken of the objects of a small heap.
InitHeap == CtxIdle /\ StrIdle /\ BuildIdle /\ HeapInit /\ FlatIdle /\ FnIdle

SpecHeap == InitHeap /\ [][HeapNext]_vars

\* Statements flattened together and one by one.
InitFlat == CtxIdle /\ StrIdle /\ BuildIdle /\ HeapIdle /\ FlatInit /\ FnIdle

SpecFlat == InitFlat /\ [][FlatNext]_vars

\* The functions of the raw-string parser and of the stringifier, and IntImm,
\* each called on its own on every bounded argument.
InitFn == CtxIdle /\ StrIdle /\ BuildIdle /\ HeapIdle /\ FlatIdle /\ FnInit

SpecFn == InitFn /\ [][FnNext]_vars

(***************************************************************************)
(* Claims about the context stack (checked under Spec)                     *)
(***************************************************************************)

\* C1: Exit(t) succeeds only if the calling thread's stack is non-empty and its
\* top is the very same object as t; in every other case (empty stack, or a
\* different object on top even if structurally equal) it fails fatally.
C1_ExitRequiresIdenticalTop ==
  [][last_op'.op = "Exit" =>
       LET stk == context_stack[last_op'.thread] IN
       /\ last_op'.status \in {"ok", "fatal"}
       /\ last_op'.status = "ok" <=> (stk # <<>> /\ Top(stk) = last_op'.arg)]_vars

\* An Exit failed although the top of the stack is structurally equal to the
\* argument (it is another object).
C1_Witness ==
  /\ last_op.op = "Exit" /\ last_op.status = "fatal"
  /\ context_stack[last_op.thread] # <<>>
  /\ Top(context_stack[last_op.thread]) # last_op.arg
  /\ ObjStructure(Top(context_stack[last_op.thread])) = ObjStructure(last_op.arg)

\* C2: Current(allow_not_defined) returns the top of the calling thread's stack
\* whenever that stack is non-empty, whatever the flag; on an empty stack it
\* returns the undefined Target if the flag is true and fails fatally otherwise.
C2_CurrentResult ==
  last_op.op = "Current" =>
    LET stk == context_stack[last_op.thread] IN
    IF stk # <<>> THEN last_op.status = "ok" /\ last_op.ret = Top(stk)
    ELSE IF last_op.allow THEN last_op.status = "ok" /\ last_op.ret = NullTarget
    ELSE last_op.status = "fatal"

\* Current(false) returned the top of a non-empty stack.
C2_Witness ==
  /\ last_op.op = "Current" /\ ~last_op.allow /\ last_op.status = "ok"
  /\ context_stack[last_op.thread] # <<>>
  /\ last_op.ret = Top(context_stack[last_op.thread])

\* C3: the stack is LIFO: right after Enter(t) Current() is t, right after a
\* successful Exit(t) Current() is what was current just before the matching
\* Enter(t) (undefined if nothing was), and at any time the history of
\* "current before Enter" of the live Enters is the stack shifted by one.
C3_Lifo ==
  [][LET th == last_op'.thread IN
     /\ last_op'.op = "Enter" =>
          CurrentResult(context_stack'[th], FALSE) = <<"ok", last_op'.arg>>
     /\ (last_op'.op = "Exit" /\ last_op'.status = "ok") =>
          /\ enter_hist[th] # <<>>
          /\ CurrentResult(context_stack'[th], TRUE) = <<"ok", Top(enter_hist[th])>>
     /\ \A u \in Threads :
          /\ Len(enter_hist'[u]) = Len(context_stack'[u])
          /\ \A i \in 1..Len(context_stack'[u]) :
               enter_hist'[u][i] = IF i = 1 THEN NullTarget ELSE context_stack'[u][i - 1]]_vars

\* A successful Exit restored a different, defined target as the current one.
C3_Witness ==
  /\ last_op.op = "Exit" /\ last_op.status = "ok"
  /\ context_stack[last_op.thread] # <<>>
  /\ Top(context_stack[last_op.thread]) # last_op.arg
  /\ Len(context_stack[last_op.thread]) = 2

\* C4: stacks are per thread: a call by one thread never changes another
\* thread's stack, the result of its Current(), or whether its Exit succeeds.
C4_ThreadIsolation ==
  [][\A other \in Threads \ {last_op'.thread} :
       /\ context_stack'[other] = context_stack[other]
       /\ \A a \in BOOLEAN :
            CurrentResult(context_stack'[ThreadLocalGet(other)], a)
              = CurrentResult(context_stack[other], a)
       /\ \A t \in TargetObjs :
            ExitChecks(context_stack'[ThreadLocalGet(other)], t)
              = ExitChecks(context_stack[other], t)]_vars

\* One thread has just exited successfully while the other thread holds a
\* different, non-empty stack.
C4_Witness ==
  /\ last_op.op = "Exit" /\ last_op.status = "ok" /\ last_op.thread = "th2"
  /\ context_stack["th1"] # <<>>
  /\ context_stack["th2"] # <<>>
  /\ context_stack["th1"] # context_stack["th2"]

\* C27: an Exit(t) that fails (empty stack, or another object on top) leaves
\* every context stack as it was, the calling thread's included: nothing is
\* popped and Current() returns afterwards what it returned before.
C27_FailedExitKeepsStack ==
  [][(last_op'.op = "Exit" /\ last_op'.status = "fatal") =>
       /\ context_stack' = context_stack
       /\ context_stack'[last_op'.thread] = last_op'.before
       /\ \A a \in BOOLEAN :
            CurrentResult(context_stack'[last_op'.thread], a)
              = CurrentResult(context_stack[last_op'.thread], a)]_vars

\* An Exit failed on a stack of two targets whose top is another object, and
\* the two are still there.
C27_Witness ==
  /\ last_op.op = "Exit" /\ last_op.status = "fatal"
  /\ Len(context_stack[last_op.thread]) = 2
  /\ Top(context_stack[last_op.thread]) # last_op.arg
  /\ context_stack[last_op.thread] = last_op.before

\* C28: Enter(t) followed at once by Exit(t) on the same thread succeeds and
\* leaves the stack as it was before the Enter, also when t was on the stack
\* already; and the depth of each stack is the number of Enters minus the
\* number of successful Exits of its thread.
C28_EnterExitRestores ==
  /\ [][(/\ last_op.op = "Enter" /\ last_op'.op = "Exit"
         /\ last_op'.thread = last_op.thread /\ last_op'.arg = last_op.arg) =>
          /\ last_op'.status = "ok"
          /\ context_stack'[last_op'.thread] = last_op.before]_vars
  /\ [](\A th \in Threads :
          Len(context_stack[th]) = scope_count[th].enters - scope_count[th].exits)

\* A target entered twice has been exited once, after an earlier Enter and
\* Exit of the thread: one occurrence is left.
C28_Witness ==
  /\ last_op.op = "Exit" /\ last_op.status = "ok"
  /\ last_op.before = <<last_op.arg, last_op.arg>>
  /\ context_stack[last_op.thread] = <<last_op.arg>>
  /\ scope_count[last_op.thread] = [enters |-> 3, exits |-> 2]

(***************************************************************************)
(* Claims about the quoting/escaping engine (checked under SpecStr)        *)
(***************************************************************************)

\* C5: for every string s, also the empty one and those holding quote and
\* escape characters in any combination, Interpret(Uninterpret(s)) = s.
C5_InterpretUninterpret ==
  str_pc = "interpreted" => str_out = str_in

\* The round trip was run on a string that starts and ends with a quote and
\* holds an escape character.
C5_Witness ==
  /\ str_pc = "interpreted"
  /\ Len(str_in) = 3
  /\ str_in[1] = quote /\ str_in[2] = escape /\ str_in[3] = quote
  /\ str_mid = <<escape, quote, escape, escape, escape, quote>>


\* The escape characters that stand in a row right before position i, not
\* counting positions before lo.
RECURSIVE EscapesBefore(_, _, _)
EscapesBefore(str, lo, i) ==
  IF i > lo /\ str[i - 1] = escape THEN 1 + EscapesBefore(str, lo, i - 1) ELSE 0

\* Whether the character at position i is escaped, reading from position lo:
\* an odd number of escape characters stands right before it.
Escaped(str, lo, i) == EscapesBefore(str, lo, i) % 2 = 1

\* Length at least 2, a quote at both ends, and no unescaped quote in between.
QuotedEndsAndInterior(str) ==
  /\ Len(str) >= 2 /\ str[1] = quote /\ str[Len(str)] = quote
  /\ \A i \in 2..(Len(str) - 1) : str[i] = quote => Escaped(str, 2, i)

\* C19: IsQuoted(s) is true iff s has length at least 2, starts and ends with
\* the quote character, and its interior holds no unescaped quote, an escape
\* character escaping exactly the next character.
C19_IsQuoted ==
  str_pc \in {"checked", "direct"} => (str_quoted <=> QuotedEndsAndInterior(str_in))

\* C19, amended: IsQuoted(s) is true iff s has length at least 2, starts and
\* ends with the quote character, its interior holds no unescaped quote, and
\* the terminating quote is not itself escaped by the interior.
C19_IsQuotedTerminated ==
  str_pc \in {"checked", "direct"} =>
    (str_quoted <=> (QuotedEndsAndInterior(str_in) /\ ~Escaped(str_in, 2, Len(str_in))))

\* IsQuoted was applied to 'a\'a' and found it quoted.
C19_Witness ==
  /\ str_pc = "checked"
  /\ str_in = <<quote, "a", escape, quote, "a", quote>>
  /\ str_quoted

\* IsQuoted was applied to 'a'a' and found it not quoted.
C19_WitnessNot ==
  /\ str_pc = "checked"
  /\ str_in = <<quote, "a", quote, "a", quote>>
  /\ ~str_quoted

\* The string without its enclosing quotes, if it is fully quoted.
Stripped(str) == IF IsQuoted(str) THEN SubSeq(str, 2, Len(str) - 1) ELSE str

\* Every escape character dropped and the character after it copied, all
\* other characters copied.
RECURSIVE DropEscapes(_)
DropEscapes(str) ==
  IF str = <<>> THEN <<>>
  ELSE IF str[1] # escape THEN <<str[1]>> \o DropEscapes(Tail(str))
  ELSE IF Len(str) = 1 THEN <<>>
  ELSE <<str[2]>> \o DropEscapes(SubSeq(str, 3, Len(str)))

\* The same, but inside a quoted region the escape character is copied too.
RECURSIVE DropEscapesOutside(_, _)
DropEscapesOutside(str, inside) ==
  IF str = <<>> THEN <<>>
  ELSE IF str[1] = quote THEN <<quote>> \o DropEscapesOutside(Tail(str), ~inside)
  ELSE IF str[1] # escape THEN <<str[1]>> \o DropEscapesOutside(Tail(str), inside)
  ELSE (IF inside THEN <<escape>> ELSE <<>>)
         \o (IF Len(str) = 1 THEN <<>>
             ELSE <<str[2]>> \o DropEscapesOutside(SubSeq(str, 3, Len(str)), inside))

\* C20: in Interpret(s), after the enclosing quotes of a fully quoted s are
\* stripped, every escape character makes exactly the next character be copied
\* and never appears in the output itself, inside or outside an interior
\* quoted region; quotes and all other characters are copied.
C20_EscapeNeverEmitted ==
  str_pc = "direct" => str_out = DropEscapes(Stripped(str_in))

\* C20, amended: outside an interior quoted region an escape character is
\* dropped and the next character copied; inside one, the escape character is
\* copied as well as the next character; quotes and all other characters are
\* copied.
C20_EscapeEmittedInside ==
  str_pc = "direct" => str_out = DropEscapesOutside(Stripped(str_in), FALSE)

\* Interpret was applied to a'\a', whose escape stands inside the interior
\* quoted region, and copied it.
C20_Witness ==
  /\ str_pc = "direct"
  /\ str_in = <<"a", quote, escape, "a", quote>>
  /\ str_out = str_in

\* Whether the string that Interpret scans ends with an escape character
\* that no character follows and that is not itself escaped.
EndsWithUnmatchedEscape(str) ==
  /\ Stripped(str) # <<>>
  /\ Stripped(str)[Len(Stripped(str))] = escape
  /\ ~Escaped(Stripped(str), 1, Len(Stripped(str)))

\* C21: Interpret(s) fails for every s that ends with an unmatched escape
\* character; it never returns a value for such an input.
C21_TrailingEscapeFails ==
  ~(str_pc = "direct" /\ EndsWithUnmatchedEscape(str_in))

\* What Interpret returns for such an input: the value of the string without
\* the trailing escape character, when it stands outside a quoted region.
C21_TrailingEscapeDropped ==
  (/\ str_pc = "direct" /\ EndsWithUnmatchedEscape(str_in)
   /\ ~Contains(str_in, quote)) =>
    str_out = DropEscapes(SubSeq(str_in, 1, Len(str_in) - 1))

\* Whether the character at position i is the second of an escape pair.
Taken(str, i) == Escaped(str, 1, i)

\* Whether position i lies inside a quoted region: an odd number of quotes
\* that toggle the region stand before it.
InsideQuotes(str, i) ==
  Cardinality({j \in 1..(i - 1) : str[j] = quote /\ ~Taken(str, j)}) % 2 = 1

\* The tokens of str between the delimiter positions: the non-empty
\* substrings between one delimiter (or the start) and the next (or the
\* end), in order.
NextBound(bounds, b) == CHOOSE n \in bounds : n > b /\ \A m \in bounds : m > b => n <= m
TokenStarts(str, bounds) ==
  {b \in bounds \ {Len(str) + 1} : NextBound(bounds, b) > b + 1}
TokensAt(str, bounds, starts) ==
  [k \in 1..Cardinality(starts) |->
     SubSeq(str,
            (CHOOSE b \in starts : Cardinality({c \in starts : c < b}) = k - 1) + 1,
            NextBound(bounds,
                      CHOOSE b \in starts : Cardinality({c \in starts : c < b}) = k - 1) - 1)]
TokensBetween(str, delimiters) ==
  TokensAt(str, delimiters \cup {0, Len(str) + 1},
           TokenStarts(str, delimiters \cup {0, Len(str) + 1}))

RECURSIVE TotalLen(_)
TotalLen(tokens) == IF tokens = <<>> THEN 0 ELSE Len(tokens[1]) + TotalLen(Tail(tokens))

\* The separators outside quoted regions that no escape character stands
\* right before.
DelimitersNotAfterEscape(str, sep) ==
  {i \in 1..Len(str) : /\ str[i] = sep /\ ~InsideQuotes(str, i)
                       /\ (i = 1 \/ str[i - 1] # escape)}

\* The separators outside quoted regions that are not the second character
\* of an escape pair.
DelimitersNotTaken(str, sep) ==
  {i \in 1..Len(str) : str[i] = sep /\ ~InsideQuotes(str, i) /\ ~Taken(str, i)}

\* C22: SplitString(s, sep) returns, in order, the maximal non-empty
\* substrings of s delimited by the occurrences of sep that are neither inside
\* a quoted region nor immediately preceded by an escape character; quotes and
\* escape pairs stay in the tokens, empty tokens are dropped, and the tokens
\* with the removed separators make up s.
C22_SplitString ==
  (str_pc = "split" /\ str_split.res.ok) =>
    /\ str_split.res.val = TokensBetween(str_in, DelimitersNotAfterEscape(str_in, str_split.sep))
    /\ TotalLen(str_split.res.val)
         + Cardinality(DelimitersNotAfterEscape(str_in, str_split.sep)) = Len(str_in)

\* C22, amended: the delimiters are the occurrences of sep that are neither
\* inside a quoted region nor the second character of an escape pair (an
\* escape character that is itself escaped does not protect the separator
\* after it).
C22_SplitStringPairs ==
  (str_pc = "split" /\ str_split.res.ok) =>
    /\ str_split.res.val = TokensBetween(str_in, DelimitersNotTaken(str_in, str_split.sep))
    /\ TotalLen(str_split.res.val)
         + Cardinality(DelimitersNotTaken(str_in, str_split.sep)) = Len(str_in)

\* SplitString returns unless a quoted region is left open.
C22_SplitStringReturns ==
  str_pc = "split" => (str_split.res.ok <=> ~InsideQuotes(str_in, Len(str_in) + 1))

\* a,',a' was split at its first comma only.
C22_Witness ==
  /\ str_pc = "split" /\ str_split.sep = "," /\ str_split.res.ok
  /\ str_in = <<"a", ",", quote, ",", "a", quote>>
  /\ str_split.res.val = << <<"a">>, <<quote, ",", "a", quote>> >>

(***************************************************************************)
(* Claims about construction, str() and Export() (checked under SpecBuild) *)
(***************************************************************************)

\* What is observed of a Target: kind, tag, keys, attrs and, recursively, host.
RECURSIVE Observable(_)
Observable(node) ==
  [kind |-> node.kind, tag |-> node.tag, keys |-> node.keys, attrs |-> node.attrs,
   host |-> IF node.host.t = "target" THEN <<Observable(node.host.v)>> ELSE <<>>]

\* C6: for every Target t the config assembler produced, constructing a Target
\* from the string t.str() succeeds and yields a Target with the same kind,
\* tag, keys, attrs and host as t.
C6_StrRoundTrip ==
  b_pc = "reparsed" =>
    /\ b_again.ok
    /\ Observable(b_again.val) = Observable(b_res.val)

\* C7: for every Target t the config assembler built (kind without hooks),
\* FromConfig(t.Export()) succeeds and yields a Target with the same kind, tag,
\* keys, attrs and (recursively) host as t.
C7_ExportRoundTrip ==
  b_pc = "reingested" =>
    /\ b_again.ok
    /\ Observable(b_again.val) = Observable(b_res.val)

\* The position of the first flag of a raw input whose key an earlier flag has
\* set already; 0 when no key repeats.
RepeatAt(flags) ==
  LET repeats == {j \in 1..Len(flags) :
                    /\ RawFlags[flags[j]].key # <<>>
                    /\ \E i \in 1..(j - 1) : RawFlags[flags[i]].key = RawFlags[flags[j]].key}
  IN IF repeats = {} THEN 0 ELSE CHOOSE j \in repeats : \A k \in repeats : j <= k

\* The error FromRawString throws for a key that is set already.
AppearsMoreThanOnce(key) ==
  <<Lit("The key \""), Txt(key), Lit("\" appears more than once")>>

\* C9: a raw flag string (of a registered kind) in which an attribute key occurs
\* twice, in whichever flag forms, produces no Target: the constructor fails
\* with a ValueError, and when the flags before the second occurrence are
\* accepted the parser's error is the ValueError whose message names the key.
C9_DuplicateKey ==
  (/\ b_pc = "built" /\ b_input.form = "str" /\ b_input.kind = LlvmName
   /\ RepeatAt(b_input.flags) # 0) =>
    /\ ~b_inner.ok
    /\ ~b_res.ok /\ b_res.kind = "ValueError"
    /\ FromString(b_api, RawText(LlvmName,
                    SubSeq(b_input.flags, 1, RepeatAt(b_input.flags) - 1))).ok =>
         /\ b_inner.kind = "ValueError"
         /\ SubSeq(b_inner.msg, 1, 3)
              = AppearsMoreThanOnce(RawFlags[b_input.flags[RepeatAt(b_input.flags)]].key)
         /\ SubSeq(b_res.msg, 1, 3) = SubSeq(b_inner.msg, 1, 3)

\* "-a=1 --a" was parsed: the key a in the form key=value, then in the form of
\* a bare key, and the error names a.
C9_Witness ==
  /\ b_pc = "built" /\ b_input.form = "str"
  /\ b_input.s = LlvmName \o <<" ", "-", "a", "=", "1", " ", "-", "-", "a">>
  /\ ~b_res.ok /\ b_res.kind = "ValueError"
  /\ SubSeq(b_res.msg, 1, 3) = AppearsMoreThanOnce(<<"a">>)

\* The attribute key of the inputs that no schema declares.
UnknownKey == <<"z", "z">>

KnownFlag(i) == RawFlags[i].key # UnknownKey

\* Whether the input names a registered kind and sets the undeclared key, and
\* is accepted once that key is taken out.
OnlyUnknownKeyWrong(input, api) ==
  IF input.form = "str"
  THEN /\ input.kind = LlvmName
       /\ \E i \in 1..Len(input.flags) : ~KnownFlag(input.flags[i])
       /\ FromString(api, RawText(LlvmName, SelectSeq(input.flags, KnownFlag))).ok
  ELSE /\ input.form = "cfg"
       /\ input.kind = <<AnyStr(LlvmName)>>
       /\ UnknownKey \in DOMAIN input.c
       /\ FromConfig(api, MapErase(input.c, UnknownKey)).ok

\* The message FindTypeInfo throws for the undeclared key.
CannotRecognize(kind, key) ==
  <<Lit(": Cannot recognize '"), Txt(key), Lit("'. Candidates are: ")>>
    \o CandidateList(kind)

\* C10: constructing a Target from a raw flag string or a config map that sets
\* an attribute key absent from the schema of the resolved kind fails with an
\* error of kind TypeError whose message lists the schema keys as candidates.
C10_UnknownKeyTypeError ==
  (b_pc = "built" /\ OnlyUnknownKeyWrong(b_input, b_api)) =>
    /\ ~b_res.ok
    /\ b_res.kind = "TypeError"
    /\ SubSeq(b_res.msg, 1, Len(CannotRecognize(LlvmKind, UnknownKey)))
         = CannotRecognize(LlvmKind, UnknownKey)

\* What the constructor appends to the message of the error it caught.
CreationFailed(input) ==
  IF input.form = "str"
  THEN <<Lit(". Target creation from string failed: "), Txt(input.s)>>
  ELSE <<Lit(". Target creation from config dict failed: "),
         Obj(AnyMap(ConfigToPairs(input.c)))>>

\* C11: when the construction inside Target(String) or Target(Map) raises an
\* error of kind TypeError or ValueError, the constructor raises an error of
\* that same kind whose message is the original message followed by the
\* original input string or map.
C11_ConstructorKeepsKind ==
  (b_pc = "built" /\ ~b_inner.ok /\ b_inner.kind \in {"TypeError", "ValueError"}) =>
    /\ ~b_res.ok
    /\ b_res.kind = b_inner.kind
    /\ b_res.msg = b_inner.msg \o CreationFailed(b_input)

\* The position at which x first occurs in a list that holds it.
FirstIndex(list, x) ==
  CHOOSE m \in 1..Len(list) : list[m] = x /\ \A n \in 1..(m - 1) : list[n] # x

\* Whether `result` is `list` with the later duplicates removed: it repeats
\* nothing, holds the same entries, and orders them by first occurrence.
FirstOccurrences(list, result) ==
  /\ \A i, j \in 1..Len(result) : i # j => result[i] # result[j]
  /\ {result[i] : i \in 1..Len(result)} = {list[i] : i \in 1..Len(list)}
  /\ \A i, j \in 1..Len(result) :
       i < j => FirstIndex(list, result[i]) < FirstIndex(list, result[j])

\* The keys and the device name of the flags -keys=x,y,x and -device=y.
RawKeysValue == << <<"x">>, <<"y">>, <<"x">> >>
RawDeviceValue == << <<"y">> >>

HasFlag(input, key) == \E i \in 1..Len(input.flags) : RawFlags[input.flags[i]].key = key

\* Whether the input gives a keys entry, the keys it lists, and its string
\* device (as a list of at most one key).
GivesKeys(input) ==
  IF input.form = "str" THEN HasFlag(input, kKeys) ELSE kKeys \in DOMAIN input.c
GivenKeys(input) ==
  IF input.form = "str" THEN RawKeysValue
  ELSE [i \in 1..Len(input.c[kKeys].v) |-> input.c[kKeys].v[i].v]
GivenDevice(input) ==
  IF input.form = "str"
  THEN IF HasFlag(input, kDeviceName) THEN RawDeviceValue ELSE <<>>
  ELSE IF kDeviceName \in DOMAIN input.c /\ input.c[kDeviceName].t = "str"
       THEN <<input.c[kDeviceName].v>> ELSE <<>>

\* C12: when the input gives an explicit keys array K, the keys of the Target
\* are K in its order followed by the string device if there is one, with the
\* later duplicates removed; the default keys of the kind are not added.
C12_ExplicitKeys ==
  (b_res.ok /\ GivesKeys(b_input)) =>
    FirstOccurrences(GivenKeys(b_input) \o GivenDevice(b_input), b_res.val.keys)

\* A Target of kind llvm (default key cpu) was built from the keys [x] and the
\* device y: its keys are [x, y].
C12_Witness ==
  /\ b_pc = "built" /\ b_res.ok /\ b_input.form = "cfg"
  /\ GivesKeys(b_input) /\ GivenKeys(b_input) = << <<"x">> >>
  /\ GivenDevice(b_input) = << <<"y">> >>
  /\ b_res.val.keys = << <<"x">>, <<"y">> >>
  /\ b_res.val.kind = LlvmName

\* C13: when the input gives no keys entry, the keys of the Target are the
\* default keys of the kind in their order, followed by the string device if
\* there is one, with the later duplicates removed.
C13_DefaultKeysThenDevice ==
  (b_res.ok /\ ~GivesKeys(b_input)) =>
    FirstOccurrences(LlvmKind.default_keys \o GivenDevice(b_input), b_res.val.keys)

\* The keys of a Target and, recursively, of its host.
RECURSIVE KeyLists(_)
KeyLists(node) ==
  {node.keys} \cup IF node.host.t = "target" THEN KeyLists(node.host.v) ELSE {}

\* C14: the keys of every Target the assembler produces (the host included)
\* repeat no entry, and for the Target built from a config map they are the
\* entries of the list pushed before de-duplication, in the order of their
\* first occurrence in it.
C14_KeysDeduplicated ==
  b_res.ok =>
    /\ \A keys \in KeyLists(b_res.val) :
         \A i, j \in 1..Len(keys) : i # j => keys[i] # keys[j]
    /\ b_input.form = "cfg" =>
         FirstOccurrences(CollectKeys(LlvmKind, b_input.c), b_res.val.keys)

\* A Target was built from the keys [x, y, x]: its keys are [x, y].
C14_Witness ==
  /\ b_pc = "built" /\ b_res.ok /\ b_input.form = "cfg"
  /\ GivesKeys(b_input) /\ GivenKeys(b_input) = RawKeysValue
  /\ b_res.val.keys = << <<"x">>, <<"y">> >>

\* The same construction with the from_device entry taken out of the input,
\* in a process without a device API: the Target built without device values.
BuiltWithoutDevice(input) ==
  IF input.form = "str"
  THEN FromString(ApiUnavailable,
         RawText(input.kind,
                 SelectSeq(input.flags, LAMBDA i : RawFlags[i].key # kFromDevice)))
  ELSE FromConfig(ApiUnavailable, MapErase(input.c, kFromDevice))

\* Whether the input has from_device, and has it once.
FromDeviceOnce(input) ==
  IF input.form = "str"
  THEN Cardinality({i \in 1..Len(input.flags) :
                      RawFlags[input.flags[i]].key = kFromDevice}) = 1
  ELSE kFromDevice \in DOMAIN input.c

\* The attribute keys the user gave a value for.
SuppliedAttrs(input) ==
  (IF input.form = "str"
   THEN {RawFlags[input.flags[i]].key : i \in 1..Len(input.flags)}
   ELSE DOMAIN input.c) \ {kKind, kTag, kKeys, kHost, kFromDevice}

\* The user's values win over the device's, and the device's values fill
\* the attributes the user left out.
UserBeforeDevice(input, api, attrs, base) ==
  /\ \A k \in SuppliedAttrs(input) : k \in DOMAIN attrs /\ attrs[k] = base.attrs[k]
  /\ \A k \in DOMAIN api.props \ SuppliedAttrs(input) :
       k \in DOMAIN attrs /\ attrs[k] = api.props[k]

C15_Cases(input, api, res, base) ==
  /\ (api.available /\ api.exists /\ res.ok) =>
        base.ok /\ UserBeforeDevice(input, api, res.val.attrs, base.val)
  /\ (api = ApiUnavailable /\ base.ok) => res = base

\* C15: when the input has from_device and the device reports values, every
\* attribute the user supplied keeps the user's value and the device's value
\* is used for the reported attributes the user did not supply; when the
\* device API is not available, the construction succeeds as it does without
\* from_device and gives the Target built without device values.
C15_UserBeforeDevice ==
  (b_pc = "built" /\ FromDeviceOnce(b_input)) =>
    C15_Cases(b_input, b_api, b_inner, BuiltWithoutDevice(b_input))

\* A Target was built with from_device, a user value for a, and a device
\* that reports a = 9 and o = 4: it holds the user's a and the device's o.
C15_Witness ==
  /\ b_pc = "built" /\ b_res.ok /\ FromDeviceOnce(b_input) /\ b_api = ApiReporting
  /\ <<"a">> \in SuppliedAttrs(b_input)
  /\ b_res.val.attrs[<<"a">>] = AnyInt(1)
  /\ b_res.val.attrs[<<"o">>] = AnyInt(4)

\* A Target was built with from_device in a process without a device API.
C15_WitnessUnavailable ==
  /\ b_pc = "built" /\ b_res.ok /\ FromDeviceOnce(b_input) /\ b_api = ApiUnavailable
  /\ b_res.val.attrs[<<"o">>] = AnyInt(2)

\* C16: after a successful construction from an input with from_device, for
\* a kind without a preprocessor, the attributes of the Target do not contain
\* from_device, whether or not the device API is available.
C16_FromDeviceErased ==
  (b_pc = "built" /\ b_res.ok /\ UsesFromDevice(b_input)) =>
    kFromDevice \notin DOMAIN b_res.val.attrs

\* Without a device API the attribute is erased and nothing brings it back.
C16_UnavailableErased ==
  (b_pc = "built" /\ b_res.ok /\ UsesFromDevice(b_input) /\ b_api = ApiUnavailable) =>
    kFromDevice \notin DOMAIN b_res.val.attrs

\* Whether the device query of this construction reported a value for key.
DeviceSupplied(input, api, key) ==
  /\ UsesFromDevice(input)
  /\ api.available /\ api.exists
  /\ key \in DOMAIN api.props

\* C17: after a successful construction, every attribute the kind has a
\* default for, and for which neither the user nor the device query supplied a
\* value, is present with exactly its default; a value the user supplied is
\* not replaced by the default.
C17_DefaultsFilled ==
  (b_pc = "built" /\ b_res.ok) =>
    \A k \in DOMAIN LlvmKind.key2default_ :
      IF k \in SuppliedAttrs(b_input)
      THEN b_input.form = "cfg" => b_res.val.attrs[k] = b_input.c[k]
      ELSE ~DeviceSupplied(b_input, b_api, k) =>
             k \in DOMAIN b_res.val.attrs /\ b_res.val.attrs[k] = LlvmKind.key2default_[k]

\* The same, for the constructions that do not query an existing device.
C17_DefaultsFilledNoQuery ==
  (b_pc = "built" /\ b_res.ok /\ ~(UsesFromDevice(b_input) /\ b_api.exists)) =>
    \A k \in DOMAIN LlvmKind.key2default_ :
      IF k \in SuppliedAttrs(b_input)
      THEN b_input.form = "cfg" => b_res.val.attrs[k] = b_input.c[k]
      ELSE k \in DOMAIN b_res.val.attrs /\ b_res.val.attrs[k] = LlvmKind.key2default_[k]

(***************************************************************************)
(* Claims about SeqStmt::Flatten (checked under SpecFlat)                  *)
(***************************************************************************)

\* The statements of an argument that are kept, in order: everything but
\* undefined references, Evaluate(0) and the SeqStmts and Arrays themselves.
RECURSIVE Kept(_)
Kept(arg) ==
  IF arg.t \in {"seq", "arr"}
  THEN IF arg.v = <<>> THEN <<>>
       ELSE Kept([arg EXCEPT !.v = SubSeq(arg.v, 1, Len(arg.v) - 1)])
              \o Kept(arg.v[Len(arg.v)])
  ELSE IF arg = UndefinedStmt \/ arg = Evaluate(0) THEN <<>>
  ELSE <<arg>>

\* The statement that stands for a list of kept statements.
Standing(kept) ==
  IF kept = <<>> THEN Evaluate(0)
  ELSE IF Len(kept) = 1 THEN kept[1]
  ELSE SeqStmt(kept)

\* C18: Flatten(a, b) equals Flatten(Flatten(a), Flatten(b)); undefined
\* arguments and Evaluate(0) no-ops (the Evaluate(0) that Flatten returns for an
\* empty sequence included) are dropped, and nested SeqStmts and Arrays are
\* flattened recursively.
C18_FlattenOfFlattened ==
  /\ flat_pc \in {"flat", "parts", "done"} =>
       flat_one = Standing(Kept(flat_args[1]) \o Kept(flat_args[2]))
  /\ flat_pc \in {"parts", "done"} =>
       \A i \in 1..2 : flat_parts[i] = Standing(Kept(flat_args[i]))
  /\ flat_pc = "done" => flat_two = flat_one

\* Both arguments flattened to nothing, one by one, and the two Evaluate(0)
\* that stand for them were dropped again: an undefined reference and a
\* SeqStmt that holds a SeqStmt of an Evaluate(0).
C18_Witness ==
  /\ flat_pc = "done"
  /\ flat_args = <<UndefinedStmt, SeqStmt(<<SeqStmt(<<Evaluate(0)>>)>>)>>
  /\ flat_parts = <<Evaluate(0), Evaluate(0)>>
  /\ flat_two = Evaluate(0)

\* A SeqStmt nested in a SeqStmt and the element of an Array were flattened
\* into one SeqStmt of two statements.
C18_WitnessNested ==
  /\ flat_pc = "done"
  /\ flat_args = <<SeqStmt(<<SeqStmt(<<OtherStmt(1)>>)>>), ArrayOf(<<Evaluate(1)>>)>>
  /\ flat_two = SeqStmt(<<OtherStmt(1), Evaluate(1)>>)

\* The token of the first flag of a raw input.
FirstToken(input) == RawFlags[input.flags[1]].text

\* Whether a token has no leading dash, or is made of dashes only.
NoDash(token) == token[1] # "-"
OnlyDashes(token) == \A i \in 1..Len(token) : token[i] = "-"

\* The message RemovePrefixDashes gives for a token it does not accept.
NotAnAttributeKey(token) ==
  IF NoDash(token)
  THEN <<Lit("Attribute keys should start with '-', not an attribute key: "), Txt(token)>>
  ELSE <<Lit("Not an attribute key: "), Txt(token)>>

\* A raw input of a registered kind whose first flag is given.
FirstFlagIs(input, token) ==
  /\ input.form = "str" /\ input.kind = LlvmName
  /\ input.flags # <<>> /\ FirstToken(input) = token

\* C24: dash-stripping a flag token that has no leading dash, or that is made
\* of dashes only, is a fatal error that the raw-string parser does not catch
\* and report again; for any other token the result is the token without its
\* whole leading run of dashes.
C24_DashErrorFatal ==
  (/\ b_pc = "built" /\ b_input.form = "str" /\ b_input.kind = LlvmName
   /\ b_input.flags # <<>>
   /\ NoDash(FirstToken(b_input)) \/ OnlyDashes(FirstToken(b_input))) =>
    /\ ~b_inner.ok
    /\ b_inner.kind = "InternalError"
    /\ b_inner.msg = NotAnAttributeKey(FirstToken(b_input))

\* C24, amended: dash-stripping such a token raises a ValueError, which the
\* raw-string parser catches and raises again with the same kind and the
\* target string appended to the message; a token of two dashes and a key
\* sets that key.
C24_DashErrorReported ==
  /\ (/\ b_pc = "built" /\ b_input.form = "str" /\ b_input.kind = LlvmName
      /\ b_input.flags # <<>>
      /\ NoDash(FirstToken(b_input)) \/ OnlyDashes(FirstToken(b_input))) =>
       b_inner = Err("ValueError", NotAnAttributeKey(FirstToken(b_input))
                                     \o DuringParsingTarget(b_input.s))
  /\ (b_pc = "built" /\ FirstFlagIs(b_input, <<"-", "-", "a">>) /\ Len(b_input.flags) = 1) =>
       b_inner.ok /\ b_inner.val.attrs[<<"a">>] = AnyInt(1)

\* "llvm --" was parsed and the parser reported the token of dashes.
C24_Witness ==
  /\ b_pc = "built" /\ FirstFlagIs(b_input, <<"-", "-">>)
  /\ ~b_inner.ok /\ b_inner.kind = "ValueError"
  /\ Len(b_inner.msg) = 4

\* RemovePrefixDashes on its own: a ValueError for a token without a leading
\* dash or of dashes only, otherwise the token without its leading dashes.
C24_RemovePrefixDashes ==
  (fn_pc = "returned" /\ fn_in.op = "RemovePrefixDashes") =>
    IF NoDash(fn_in.s) \/ OnlyDashes(fn_in.s)
    THEN fn_out = Err("ValueError", NotAnAttributeKey(fn_in.s))
    ELSE /\ fn_out.ok /\ fn_out.val # <<>> /\ fn_out.val[1] # "-"
         /\ \E n \in 1..Len(fn_in.s) :
              /\ \A i \in 1..n : fn_in.s[i] = "-"
              /\ fn_out.val = SubSeq(fn_in.s, n + 1, Len(fn_in.s))

(***************************************************************************)
(* Claims about single functions (checked under SpecFn)                    *)
(***************************************************************************)

\* C23: ParseKVPair(s, s_next) decides in this order: if s holds an equals
\* sign, key and value are the parts before and after the first one and one
\* token is consumed, with an error when either part is empty; else if s_next
\* is not empty and does not start with a dash, key = s, value = s_next and two
\* tokens are consumed; else key = s, value = "1" and one token is consumed.
\* The tokens consumed are always one or two.
C23_ParseKVPair ==
  (fn_pc = "returned" /\ fn_in.op = "ParseKVPair") =>
    /\ IF \E p \in 1..Len(fn_in.s) : fn_in.s[p] = "="
       THEN \E p \in 1..Len(fn_in.s) :
              /\ fn_in.s[p] = "=" /\ \A j \in 1..(p - 1) : fn_in.s[j] # "="
              /\ IF p = 1 \/ p = Len(fn_in.s)
                 THEN ~fn_out.ok /\ fn_out.kind = "ValueError"
                 ELSE fn_out = Ok([key |-> SubSeq(fn_in.s, 1, p - 1),
                                   value |-> SubSeq(fn_in.s, p + 1, Len(fn_in.s)),
                                   n |-> 1])
       ELSE IF fn_in.s_next # <<>> /\ fn_in.s_next[1] # "-"
       THEN fn_out = Ok([key |-> fn_in.s, value |-> fn_in.s_next, n |-> 2])
       ELSE fn_out = Ok([key |-> fn_in.s, value |-> <<"1">>, n |-> 1])
    /\ fn_out.ok => fn_out.val.n \in {1, 2}

\* ParseKVPair took the next token as the value of a key without an equals
\* sign, and consumed two tokens.
C23_Witness ==
  /\ fn_pc = "returned" /\ fn_in.op = "ParseKVPair"
  /\ fn_in.s = <<"a">> /\ fn_in.s_next = <<"a", "=", "a">>
  /\ fn_out = Ok([key |-> <<"a">>, value |-> <<"a", "=", "a">>, n |-> 2])

\* Whether operator>> reads an integer from a token of ArrAlphabet: its first
\* character that is not a space is a digit.
ReadsInteger(tok) ==
  \E i \in 1..Len(tok) : tok[i] = "1" /\ \A j \in 1..(i - 1) : tok[j] = " "

\* The integer read from such a token: as many ones as the run of digits has.
OnesValue(tok) ==
  LET first == CHOOSE i \in 1..Len(tok) : tok[i] = "1" /\ \A j \in 1..(i - 1) : tok[j] = " "
      run == {n \in 1..Len(tok) : \A j \in first..(first + n - 1) : j <= Len(tok) /\ tok[j] = "1"}
      RECURSIVE Ones(_)
      Ones(n) == IF n = 0 THEN 0 ELSE 10 * Ones(n - 1) + 1
  IN Ones(Cardinality(run))

\* Whether parsing a token against the element schema fails, the error it
\* fails with, and the value it gives otherwise.
ElementFails(tok, elem) == elem.type = "map" \/ ~ReadsInteger(tok)
ElementError(tok, elem) ==
  IF elem.type = "map"
  THEN [kind |-> "TypeError",
        msg |-> <<Lit("Unsupported type \""), Lit("map"),
                  Lit("\" for parsing from string: "), Txt(tok)>>]
  ELSE [kind |-> "ValueError",
        msg |-> <<Lit("Cannot parse integer from string: "), Txt(tok)>>]
ElementValue(tok, elem) ==
  IF elem.type = "int" THEN AnyInt(OnesValue(tok)) ELSE AnyBool(OnesValue(tok) # 0)

\* "[i]" for an index of one digit.
IndexText(i) ==
  Txt(<<"[", <<"0", "1", "2", "3", "4", "5", "6", "7", "8", "9">>[i + 1], "]">>)

\* The non-empty tokens between the commas of an array value without quotes.
ArrTokens(str) == SplitString(str, ",").val

\* C25: when the element at position i (counting the non-empty tokens from 0)
\* of an array value fails to parse with an error of kind K, the array parse
\* fails with kind K and the element's message followed by "[i]", where i is
\* the first such position; an array is returned only when every element
\* parses, and then it holds every element.
C25_ArrayElementError ==
  (fn_pc = "returned" /\ fn_in.op = "ParseType") =>
    LET toks == ArrTokens(fn_in.s)
        elem == fn_in.info.key
        failing == {i \in 1..Len(toks) : ElementFails(toks[i], elem)}
        first == CHOOSE i \in failing : \A j \in failing : i <= j
    IN IF failing # {}
       THEN fn_out = Err(ElementError(toks[first], elem).kind,
                         ElementError(toks[first], elem).msg \o <<IndexText(first - 1)>>)
       ELSE fn_out = Ok(AnyArr([i \in 1..Len(toks) |-> ElementValue(toks[i], elem)]))

\* "1,x" was parsed as an array of integers and failed at position 1.
C25_Witness ==
  /\ fn_pc = "returned" /\ fn_in.op = "ParseType"
  /\ fn_in.s = <<"1", ",", "x">> /\ fn_in.info = InfoArr(InfoInt)
  /\ ~fn_out.ok /\ fn_out.kind = "ValueError"
  /\ fn_out.msg[Len(fn_out.msg)] = Txt(<<"[", "1", "]">>)

\* ",x 1" was parsed as an array of maps and failed at position 0 with the
\* TypeError of its element.
C25_WitnessTypeError ==
  /\ fn_pc = "returned" /\ fn_in.op = "ParseType"
  /\ fn_in.s = <<",", "x", " ", "1">> /\ fn_in.info.key.type = "map"
  /\ ~fn_out.ok /\ fn_out.kind = "TypeError"
  /\ fn_out.msg[Len(fn_out.msg)] = Txt(<<"[", "0", "]">>)

\* The keys of the attribute maps in lexicographic order of their bytes, and
\* the text of each value ("" for the values that give no entry).
KeysInOrder == <<<<"A">>, <<"a">>, <<"a", "b">>, <<"b">>>>
ValueText(obj) ==
  CASE obj = AnyInt(7) -> <<"7">>
    [] obj = AnyBool(TRUE) -> <<"1">>
    [] obj = AnyStr(<<"x", " ", "y">>) -> <<"'", "x", " ", "y", "'">>
    [] obj = AnyArr(<<AnyStr(<<"x">>), AnyStr(<<"y">>)>>) -> <<"x", ",", "y">>
    [] OTHER -> <<>>

\* The entries of the first n keys in order, each after a single space.
RECURSIVE EntriesUpTo(_, _)
EntriesUpTo(attrs, n) ==
  IF n = 0 THEN <<>>
  ELSE LET key == KeysInOrder[n] IN
       IF key \in DOMAIN attrs /\ ValueText(attrs[key]) # <<>>
       THEN EntriesUpTo(attrs, n - 1) \o <<" ", "-">> \o key \o <<"=">> \o ValueText(attrs[key])
       ELSE EntriesUpTo(attrs, n - 1)

\* The entries joined by single spaces.
CanonicalAttrs(attrs) ==
  LET all == EntriesUpTo(attrs, Len(KeysInOrder)) IN
  IF all = <<>> THEN <<>> ELSE Tail(all)

\* C26: StringifyAttrsToRaw gives one "-key=value" entry for each attribute
\* whose value is defined and whose text is not empty, and none for the
\* others, in lexicographic order of the keys and joined by single spaces;
\* the string is the same whatever order the keys were inserted in.
C26_StringifyAttrsToRaw ==
  (fn_pc = "returned" /\ fn_in.op = "StringifyAttrsToRaw") =>
    fn_out = Ok(CanonicalAttrs(fn_in.attrs))

\* A map with b inserted before ab and A, and an empty string for ab.
C26_Witness ==
  /\ fn_pc = "returned" /\ fn_in.op = "StringifyAttrsToRaw"
  /\ fn_in.keys = <<<<"b">>, <<"a", "b">>, <<"A">>>>
  /\ fn_in.attrs[<<"b">>] = AnyInt(7)
  /\ fn_in.attrs[<<"a", "b">>] = AnyStr(<<>>)
  /\ fn_in.attrs[<<"A">>] = AnyStr(<<"x", " ", "y">>)
  /\ fn_out = Ok(<<"-", "A", "=", "'", "x", " ", "y", "'", " ", "-", "b", "=", "7">>)

\* Whether the magnitude 2^k, or 2^k - 1, of a sample is below, or at most,
\* 2^b; by the exponents alone.
SampleBelow(v, b) == IF v.below THEN v.k <= b ELSE v.k < b
SampleAtMost(v, b) == v.k <= b \/ (v.below /\ v.k = b + 1 /\ b = 0)
SampleIsZero(v) == v.k = 0 /\ v.below

\* Whether the value of a sample is in the range the dtype admits.
ValueInRange(dtype, v) ==
  IF dtype.code = "uint"
  THEN /\ ~v.neg
       /\ dtype.bits < 64 => SampleBelow(v, dtype.bits)
  ELSE IF dtype.bits = 1 THEN ~v.neg /\ SampleBelow(v, 1)
  ELSE IF dtype.bits < 64
  THEN IF v.neg THEN SampleAtMost(v, dtype.bits - 1) ELSE SampleBelow(v, dtype.bits - 1)
  ELSE TRUE

\* C30: IntImm(dtype, value) creates a node only for a scalar dtype of integer
\* or unsigned type and a value in its range (for uint of fewer than 64 bits
\* 0 <= value < 2^bits, for int of one bit 0 or 1, for int of 2..63 bits
\* -2^(bits-1) <= value < 2^(bits-1)); anything else fails fatally without a
\* node; and the node holds the dtype and the value given.
C30_IntImmRange ==
  (fn_pc = "returned" /\ fn_in.op = "IntImm") =>
    LET dtype == fn_in.dtype
        admitted == /\ dtype.lanes = 1 /\ dtype.code \in {"int", "uint"}
                    /\ ValueInRange(dtype, fn_in.sample)
    IN /\ fn_out.ok => admitted
       /\ ~admitted => ~fn_out.ok /\ fn_out.kind = "InternalError"
       /\ fn_out.ok => fn_out.val = [dtype |-> dtype, value |-> ValueOf(fn_in.sample)]

\* IntImm(int8, -128) created a node.
C30_Witness ==
  /\ fn_pc = "returned" /\ fn_in.op = "IntImm"
  /\ fn_in.dtype = DataType("int", 8, 1)
  /\ fn_in.sample = [neg |-> TRUE, k |-> 7, below |-> FALSE]
  /\ fn_out.ok /\ fn_out.val.value = Int64(TRUE, <<128, 0, 0, 0>>)

\* IntImm(uint8, 256) failed.
C30_WitnessRejected ==
  /\ fn_pc = "returned" /\ fn_in.op = "IntImm"
  /\ fn_in.dtype = DataType("uint", 8, 1)
  /\ fn_in.value = Int64(FALSE, <<256, 0, 0, 0>>)
  /\ ~fn_out.ok

\* Every value in range is admitted, except for uint of 63 bits, whose
\* bound 1LL << 63 is the smallest int64_t: every value is rejected there.
C30_AdmittedExceptUint63 ==
  (fn_pc = "returned" /\ fn_in.op = "IntImm") =>
    LET dtype == fn_in.dtype
        admitted == /\ dtype.lanes = 1 /\ dtype.code \in {"int", "uint"}
                    /\ ValueInRange(dtype, fn_in.sample)
    IN IF dtype.code = "uint" /\ dtype.bits = 63 THEN ~fn_out.ok
       ELSE fn_out.ok <=> admitted

(***************************************************************************)
(* Claims about host copies (checked under SpecHeap)                       *)
(***************************************************************************)

\* C8: WithHost(t, h) returns a new object whose host is h and whose kind, tag,
\* keys, attrs and features are those of t; no object that existed before (t,
\* its previous host, h) is changed, so a previous host of t is replaced in
\* the copy and not nested under h.
C8_WithHostFrame ==
  [][h_last'.op = "WithHost" =>
       LET t == h_last'.target.v
           h == h_last'.host
           t2 == h_last'.ret.v
       IN /\ t2 \notin 1..Len(heap)
          /\ t2 \in 1..Len(heap')
          /\ heap'[t2].host = h
          /\ heap'[t2].kind = heap[t].kind
          /\ heap'[t2].tag = heap[t].tag
          /\ heap'[t2].keys = heap[t].keys
          /\ heap'[t2].attrs = heap[t].attrs
          /\ heap'[t2].features = heap[t].features
          /\ \A o \in 1..Len(heap) : heap'[o] = heap[o]]_vars

\* WithHost was called on a Target that had another host already.
C8_Witness ==
  /\ h_last.op = "WithHost"
  /\ Defined(heap[h_last.target.v].host)
  /\ heap[h_last.target.v].host # h_last.host
  /\ heap[h_last.ret.v].host = h_last.host
  /\ ~Defined(heap[h_last.host.v].host)

\* The node with an empty str_repr_: what str() computes from the kind name,
\* the keys and the attrs when nothing is cached.
Uncached(node) == [node EXCEPT !.str_repr_ = <<>>]

\* C29: the string of a Target depends on its kind name, keys and attrs only:
\* a cached string always equals the one computed afresh, the copy made by
\* WithHost or WithoutHost has the string of the original whether or not
\* str() was called on the original before, and calling str() again returns
\* the same string.
C29_StrNeverStale ==
  /\ [](\A o \in 1..Len(heap) :
          heap[o].str_repr_ # <<>> => Ok(heap[o].str_repr_) = Str(Uncached(heap[o])))
  /\ [][h_last'.op \in {"WithHost", "WithoutHost"} =>
          /\ Str(heap'[h_last'.ret.v]) = Str(heap[h_last'.target.v])
          /\ Str(Uncached(heap'[h_last'.ret.v])) = Str(heap[h_last'.target.v])]_vars
  /\ [][h_last'.op = "str" =>
          /\ h_last'.str.ok
          /\ h_last'.str = Str(Uncached(heap[h_last'.target.v]))
          /\ Str(heap'[h_last'.target.v]) = h_last'.str]_vars

\* WithHost copied a Target without a host whose string was cached, and the
\* copy carries the cached string.
C29_Witness ==
  /\ h_last.op = "WithHost"
  /\ ~Defined(heap[h_last.target.v].host)
  /\ heap[h_last.target.v].str_repr_ # <<>>
  /\ heap[h_last.ret.v].str_repr_ = heap[h_last.target.v].str_repr_
  /\ Defined(heap[h_last.ret.v].host)

\* str() was called on a copy made by WithoutHost before str() was called on
\* the original, which has a host.
C29_WitnessAfterCopy ==
  /\ h_last.op = "str"
  /\ \E o \in 1..Len(heap) :
       /\ o # h_last.target.v
       /\ Defined(heap[o].host) /\ heap[o].str_repr_ = <<>>
       /\ ~Defined(heap[h_last.target.v].host)
       /\ Uncached(heap[h_last.target.v]) = WithoutHost(heap[o])

====
